---- MODULE Spec2Model ----
(***************************************************************************)
(* Model of the audio segmentation and translation-coordination core of    *)
(* gogospelnow (src/main.py, src/translator_core.py).                      *)
(*                                                                         *)
(* Four specifications share the definitions below:                        *)
(*   SpecBuf  - the CircularAudioBuffer class on its own                   *)
(*   Spec     - the translation dispatcher and the result reconciler: the  *)
(*              polling thread and the translation pool                    *)
(*   SpecRace - Spec with the threads that share its globals: a            *)
(*              synchronous process_audio request and a settings change    *)
(*   SpecSeg  - the segmentation state machine of check_audio_queue        *)
(*                                                                         *)
(* Durations are counted in units of 0.05 s, the step by which an idle     *)
(* poll advances silence_counter; TARGET_RATE is the number of samples in   *)
(* one unit, and the timing parameters are scaled down with it.            *)
(* Python slices are 0-based and half open; Slice and SetSlice translate   *)
(* them to the 1-based sequences of TLA+.                                  *)
(***************************************************************************)
EXTENDS Integers, Sequences, FiniteSets, TLC

\* ------------------------------------------------------------------ bounds
\* samples per unit of time (scaled down from the program's 16000 per second)
TARGET_RATE == 2
\* max_duration_seconds of the buffer under test in SpecBuf
BufSeconds == 2
\* samples appended to the buffer under test over one run of SpecBuf
MaxSamples == 12

\* translation tasks dispatched over one run of Spec
MaxTasks == 3
\* translation tasks dispatched over one run of SpecRace
MaxRaceTasks == 2
\* synchronous process_audio requests over one run of SpecRace
MaxSync == 1
\* calls of refresh_translation_executor over one run of SpecRace
MaxRefresh == 1
\* audio blocks captured over one run of SpecSeg
MaxBlocks == 8
\* audio blocks waiting in audio_queue
MaxQueued == 2
\* translation tasks dispatched over one run of SpecSeg
MaxSegTasks == 2
\* the count of finalizations is kept up to this value
MaxFinalizeCount == 3
\* buffers the polls of SpecOwn hand to the recognizer
MaxHanded == 2
\* characters of a text handed to is_complete_sentence in SpecSent
MaxTextLen == 9
\* calls of check_services_health over one run of SpecHealth
MaxChecks == 3
\* _FAIL_THRESHOLD, and the debounce window of check_services_health in seconds
FAIL_THRESHOLD == 2
HealthDebounce == 2
\* RUNTIME_PARAMS, scaled: min_silence_s, min_speech_s, max_speech_s, overlap_s
MIN_SILENCE_DURATION == 3
MIN_SPEECH_DURATION == 3
MAX_SPEECH_DURATION == 6
BUFFER_OVERLAP == 1
\* max_duration_seconds of the global audio_buffer, scaled
SegBufSeconds == 8

\* calls of start_continuous_recording from the UI over one run of SpecSess
MaxStarts == 2
\* calls of apply_all_settings over one run of SpecSess
MaxApplies == 1
\* what apply_all_settings keeps of the old buffer (2 s), scaled
KeepSeconds == 2

\* TTS jobs put on tts_queue over one run of SpecTts
MaxJobs == 2
\* Thread objects start_tts_worker creates over one run of SpecStw
MaxTtsThreads == 2

\* ------------------------------------------------------ program constants
\* main.py: DEFAULT_TRANSLATION_WORKERS
DEFAULT_TRANSLATION_WORKERS == 4
\* the energy window of core.is_speech, in units of 0.0001: the default of
\* speech_energy_threshold and max_threshold
MIN_ENERGY == 8
MAX_ENERGY == 6000
\* transcribe_audio skips a segment whose mean energy is below 0.0001
MIN_TRANSCRIBE_ENERGY == 1

\* Python's None, for an optional number
None == -1
\* Python's None, for an optional text or tuple
Nil == <<"None">>

Min(a, b) == IF a <= b THEN a ELSE b

\* s[i:j] of Python for 0 <= i <= j <= len(s)
Slice(s, i, j) == SubSeq(s, i + 1, j)

\* s[-n:] of Python for 0 < n
LastN(s, n) == IF n >= Len(s) THEN s ELSE SubSeq(s, Len(s) - n + 1, Len(s))

\* s[i:i+len(chunk)] = chunk
SetSlice(s, i, chunk) ==
    [k \in 1..Len(s) |-> IF k > i /\ k <= i + Len(chunk) THEN chunk[k - i] ELSE s[k]]

\* int(core.TARGET_RATE * seconds), seconds a whole number of units
SecondsToSamples(seconds) == TARGET_RATE * seconds

\* --------------------------------------------------- CircularAudioBuffer
\* CircularAudioBuffer.__init__: np.zeros(max_size), write_pos 0, data_size 0
NewBuffer(max_duration_seconds) ==
    [max_size  |-> SecondsToSamples(max_duration_seconds),
     buffer    |-> [k \in 1..SecondsToSamples(max_duration_seconds) |-> 0],
     write_pos |-> 0,
     data_size |-> 0]

\* CircularAudioBuffer.add_audio
add_audio(b, audio_chunk) ==
    LET chunk_size == Len(audio_chunk)
        first_part == b.max_size - b.write_pos
    IN  IF chunk_size >= b.max_size
        THEN [b EXCEPT !.buffer = LastN(audio_chunk, b.max_size),
                       !.write_pos = 0,
                       !.data_size = b.max_size]
        ELSE IF b.write_pos + chunk_size <= b.max_size
        THEN [b EXCEPT !.buffer = SetSlice(b.buffer, b.write_pos, audio_chunk),
                       !.write_pos = b.write_pos + chunk_size,
                       !.data_size = Min(b.data_size + chunk_size, b.max_size)]
        ELSE [b EXCEPT !.buffer = SetSlice(SetSlice(b.buffer, b.write_pos,
                                                    Slice(audio_chunk, 0, first_part)),
                                           0,
                                           Slice(audio_chunk, first_part, chunk_size)),
                       !.write_pos = chunk_size - first_part,
                       !.data_size = Min(b.data_size + chunk_size, b.max_size)]

\* a plausible slip: the full, wrapped buffer is copied out in storage order
get_audio_wrapped_unordered(b, samples_needed) == Slice(b.buffer, 0, samples_needed)

\* the wrap-around branch of get_audio for a full buffer with write_pos > 0
get_audio_wrapped(b, samples_needed) ==
    LET first_part == Min(samples_needed, b.max_size - b.write_pos)
    IN  Slice(b.buffer, b.write_pos, b.write_pos + first_part)
        \o (IF samples_needed > first_part
            THEN Slice(b.buffer, 0, samples_needed - first_part)
            ELSE <<>>)

\* CircularAudioBuffer.get_audio
get_audio(b, duration_seconds) ==
    LET samples_needed == IF duration_seconds = None
                          THEN b.data_size
                          ELSE Min(SecondsToSamples(duration_seconds), b.data_size)
    IN  IF samples_needed = 0 THEN <<>>
        ELSE IF samples_needed <= b.data_size /\ b.write_pos >= samples_needed
        THEN Slice(b.buffer, b.write_pos - samples_needed, b.write_pos)
        ELSE IF b.data_size < b.max_size
        THEN Slice(b.buffer, 0, samples_needed)
        ELSE IF b.write_pos = 0
        THEN LastN(b.buffer, samples_needed)
        ELSE get_audio_wrapped(b, samples_needed)

\* CircularAudioBuffer.clear
clear(b) == [b EXCEPT !.write_pos = 0, !.data_size = 0]

\* CircularAudioBuffer.get_overlap
get_overlap(b, overlap_seconds) ==
    LET overlap_samples == SecondsToSamples(overlap_seconds)
    IN  IF overlap_samples <= b.data_size THEN get_audio(b, overlap_seconds) ELSE <<>>

VARIABLES
    \* SpecBuf: a buffer object, the operation last applied to it and its result
    cb,          \* the CircularAudioBuffer under test
    appended,    \* ghost: the samples appended since construction or clear(),
                 \*        cut to the last max_size of them
    next_tag,    \* ghost: the value of the next sample to append
    op,          \* the last method called: "init", "add_audio", "clear",
                 \*        "get_audio", "get_overlap"
    arg,         \* its argument (a duration, or the chunk length)
    ret          \* the array it returned (<<>> for the mutators)

bufvars == <<cb, appended, next_tag, op, arg, ret>>

VARIABLES
    \* Spec: the module globals of main.py behind the translation dispatcher
    transcription_sequence,
    last_displayed_transcription_id,
    translation_results_queue,   \* queue.Queue of (id, transcription, translation)
    tts_queue,                   \* queue.Queue of TTS jobs
    translation_executor,        \* 0 for None, else an index into executors
    translation_workers,         \* user_preferences["translation_workers"], 0 if unset
    voice,                       \* the voice the session was started with
    \* the ThreadPoolExecutor objects created so far and the futures submitted
    executors,                   \* [max_workers, shutdown]
    futures,                     \* [tid, text, ex, st, res, has_cb, cb_done]
    \* the threads: "poll" runs check_audio_queue, "sync" runs process_audio,
    \* "cfg" runs refresh_translation_executor (from apply_all_settings)
    pc,
    loc,                         \* locals of "poll" and "sync": [tmp, id, text, ex, fut]
    new_worker_count,            \* argument of the refresh in progress
    latest_result,               \* check_audio_queue's local of that name
    held,                        \* the result process_audio has taken off the queue
    poll_ret,                    \* what the last poll returned
    sync_ret,                    \* what the last process_audio returned
    \* ghosts
    drained_now,                 \* the results the poll in progress has drained
    drained_all,                 \* futures whose result a poll has drained
    assigned,                    \* the ids next_transcription_id returned, in order
    put_log,                     \* the results the callbacks have put, in order
    display_log,                 \* the ids the reconciler returned for display
    raised,                      \* threads out of which an exception propagated
    refreshes, syncs

VARIABLES
    \* SpecSeg: the segmentation state of check_audio_queue
    audio_buffer,        \* the global CircularAudioBuffer
    silence_counter,
    is_speaking,
    last_transcription,
    audio_queue,         \* the blocks the capture callback has enqueued
    \* ghosts
    phase,               \* the shape of the block stream so far
    k_speech, k_trail,   \* its speech blocks and its trailing silent blocks
    blocks,              \* blocks captured so far
    finalize_count,      \* times a buffer was handed to transcription
    first_final_size,    \* samples handed over the first time
    heard,               \* what the recognizer returned the last time
    block_polls          \* every poll so far took at most one block

VARIABLES
    \* SpecSess: the session globals of main.py and the threads it has started
    recording_thread,     \* 0 for None, else an index into threads
    stop_event,           \* threading.Event: is it set
    recording_should_run,
    recording_params,     \* Nil for None, else the arguments of the last start
    tts_thread,           \* 0 for None, else an index into threads
    tts_stop_event,
    threads,              \* the Thread objects created: [target, st, failed]
    sess_pc,              \* where the UI handler in progress stands
    was_recording,        \* apply_all_settings' local of that name
    sess_ret,             \* what the last start or stop call returned
    \* ghosts
    last_op,              \* the handler that returned last
    start_ret,            \* what the call that started the current session returned
    starts, applies,      \* calls so far
    active_before,        \* was a session active when apply_all_settings began
    thread_at_apply       \* recording_thread when apply_all_settings began

sessvars == <<recording_thread, stop_event, recording_should_run,
              recording_params, tts_thread, tts_stop_event, threads, sess_pc,
              was_recording, sess_ret, last_op, start_ret, starts, applies,
              active_before, thread_at_apply>>

VARIABLES
    \* SpecTts: the callers of start_tts_worker and the speech workers
    stw_pc,        \* where each caller stands in start_tts_worker
    stw_new,       \* the Thread object a caller has created and not yet started
    in_synthesis,  \* [worker, job]: the jobs text_to_speech_async is working on
    channels,      \* the outcomes put on the result channel of each job
    \* ghosts
    jobs,          \* TTS jobs put on tts_queue so far
    play_log,      \* the jobs whose synthesis began, in order
    synth_result,  \* how the synthesis of each job ended
    handled,       \* the jobs a worker has finished with
    stw_raised     \* callers out of which start_tts_worker raised

ttsvars == <<stw_pc, stw_new, in_synthesis, channels, jobs, play_log,
             synth_result, handled, stw_raised>>

VARIABLES
    \* SpecUi: the timer tick continuous_update
    ui_pc,                     \* "idle", or "polling" inside check_audio_queue
    last_valid_transcription,  \* the closure variables of continuous_update
    last_valid_translation,
    ui_out                     \* what the last tick returned to the two text boxes

uivars == <<ui_pc, last_valid_transcription, last_valid_translation, ui_out>>

VARIABLES
    \* SpecRec: the calls of core.transcribe_audio
    transcribing_event,  \* the threading.Event of translator_core
    \* ghost
    in_transcription     \* the threads inside core.transcribe_audio

recvars == <<transcribing_event, in_transcription>>

VARIABLES
    \* SpecOwn: a poll on its speech path and apply_all_settings on the buffer
    own_pc,           \* where the poll stands: "idle", "read", "finish"
    poll_audio,       \* the poll's local buffer_audio
    apply_pc,         \* where apply_all_settings stands in lines 3052-3058
    old_audio,        \* its locals
    new_duration,     \* buffer_duration
    \* ghosts
    buffer_id,        \* the CircularAudioBuffer object audio_buffer names
    appended_to,      \* the object the poll in progress appended its chunk to
    size_at_add       \* data_size after that append

ownvars == <<own_pc, poll_audio, apply_pc, old_audio, new_duration,
             buffer_id, appended_to, size_at_add>>

VARIABLES
    \* SpecSent: is_complete_sentence on the texts a caller can pass
    sent_text,   \* the argument
    sent_ret     \* what the call returned

VARIABLES
    \* SpecHealth: the cached health state of translator_core
    last_health_check_ts,  \* _last_health_check_ts
    last_ollama_ok,        \* _last_ollama_ok
    last_tts_ok,           \* _last_tts_ok
    ollama_fail_count,     \* _ollama_fail_count
    tts_fail_count,        \* _tts_fail_count
    services_ok_event,     \* services_ok_event.is_set()
    clock,                 \* time.time() at the latest call
    health_log,            \* the calls so far: force and what the requests gave
    health_ret             \* what the latest call returned

healthvars == <<last_health_check_ts, last_ollama_ok, last_tts_ok,
                ollama_fail_count, tts_fail_count, services_ok_event, clock,
                health_log, health_ret>>

corevars == <<sent_text, sent_ret, healthvars>>

\* the variables of the handlers around the pipeline
handlervars == <<uivars, recvars, ownvars, corevars>>

\* the variables of the specifications that follow SpecSeg
extvars == <<sessvars, ttsvars, handlervars>>

segvars == <<audio_buffer, silence_counter, is_speaking, last_transcription,
             audio_queue, phase, k_speech, k_trail, blocks, finalize_count,
             first_final_size, heard, block_polls>>

pipevars == <<transcription_sequence, last_displayed_transcription_id,
              translation_results_queue, tts_queue, translation_executor,
              translation_workers, voice, executors, futures, pc, loc,
              new_worker_count, latest_result, held, poll_ret, sync_ret,
              drained_now, drained_all, assigned, put_log, display_log, raised,
              refreshes, syncs>>

vars == <<bufvars, pipevars, segvars, extvars>>

\* ---------------------------------------------------------------- SpecBuf
\* The input stream is the ramp 1, 2, 3, ...: every sample has its own value,
\* so a result of the right length with the wrong samples is told apart.
\* Ramp(t, n) is the next n samples of the stream, starting with the sample t.
Ramp(t, n) == [k \in 1..n |-> t + k - 1]

ChunkSizes == 1..(SecondsToSamples(BufSeconds) + 1)
ReadDurations == {None} \cup (1..(BufSeconds + 1))

BufInit ==
    /\ cb = NewBuffer(BufSeconds)
    /\ appended = <<>>
    /\ next_tag = 1
    /\ op = "init"
    /\ arg = 0
    /\ ret = <<>>

BufAddAudio ==
    \E n \in ChunkSizes :
        /\ next_tag + n - 1 <= MaxSamples
        /\ cb' = add_audio(cb, Ramp(next_tag, n))
        /\ appended' = LastN(appended \o Ramp(next_tag, n), cb.max_size)
        /\ next_tag' = next_tag + n
        /\ op' = "add_audio"
        /\ arg' = n
        /\ ret' = <<>>
        /\ UNCHANGED <<pipevars, segvars, extvars>>

BufClear ==
    /\ cb' = clear(cb)
    /\ appended' = <<>>
    /\ op' = "clear"
    /\ arg' = 0
    /\ ret' = <<>>
    /\ UNCHANGED next_tag
    /\ UNCHANGED <<pipevars, segvars, extvars>>

BufGetAudio ==
    \E d \in ReadDurations :
        /\ ret' = get_audio(cb, d)
        /\ op' = "get_audio"
        /\ arg' = d
        /\ UNCHANGED <<cb, appended, next_tag>>
        /\ UNCHANGED <<pipevars, segvars, extvars>>

BufGetOverlap ==
    \E d \in ReadDurations \ {None} :
        /\ ret' = get_overlap(cb, d)
        /\ op' = "get_overlap"
        /\ arg' = d
        /\ UNCHANGED <<cb, appended, next_tag>>
        /\ UNCHANGED <<pipevars, segvars, extvars>>

NextBuf == BufAddAudio \/ BufClear \/ BufGetAudio \/ BufGetOverlap

\* ------------------------------------------------------------------- Spec
\* The translation dispatcher and the result reconciler.  A thread takes one
\* step at a time, so that a thread switch can fall between any two accesses
\* to the module globals, as the interpreter allows.

\* the transcript of the n-th utterance dispatched: every utterance has its
\* own text, so that a result is told from its transcript and translation
Utterance(n) == <<"transcript", n>>
Voices == {"none", "af_heart"}
WorkerCounts == {1, 2}

\* core.translate on success: the translation of a transcript
Translation(text) == <<"translation", text>>

\* the outcomes of core.translate in a worker: a translation, None (request
\* error, timeout, empty response), or an exception out of the call
Outcomes == {"ok", "none", "raise"}

NoResult == [id |-> 0, transcription |-> Nil, translation |-> Nil, fut |-> 0]
NoLocals == [tmp |-> 0, id |-> 0, text |-> Nil, ex |-> 0, fut |-> 0]

Dispatchers == {"poll", "sync"}

\* get_translation_worker_count
get_translation_worker_count ==
    IF translation_workers # 0
    THEN (IF translation_workers < 1 THEN 1
          ELSE IF translation_workers > 8 THEN 8 ELSE translation_workers)
    ELSE DEFAULT_TRANSLATION_WORKERS

PipeInit ==
    /\ transcription_sequence = 0
    /\ last_displayed_transcription_id = 0
    /\ translation_results_queue = <<>>
    /\ tts_queue = <<>>
    /\ translation_executor = 0
    /\ translation_workers = 0
    /\ voice \in Voices
    /\ executors = <<>>
    /\ futures = <<>>
    /\ pc = [t \in Dispatchers \cup {"cfg"} |-> "idle"]
    /\ loc = [t \in Dispatchers |-> NoLocals]
    /\ new_worker_count = 0
    /\ latest_result = NoResult
    /\ held = NoResult
    /\ poll_ret = NoResult
    /\ sync_ret = Nil
    /\ drained_now = <<>>
    /\ drained_all = {}
    /\ assigned = <<>>
    /\ put_log = <<>>
    /\ display_log = <<>>
    /\ raised = {}
    /\ refreshes = 0
    /\ syncs = 0

\* the state of the segmenter when the module has been loaded
SegInit ==
    /\ audio_buffer = NewBuffer(SegBufSeconds)
    /\ silence_counter = 0
    /\ is_speaking = FALSE
    /\ last_transcription = <<>>
    /\ audio_queue = <<>>
    /\ phase = "lead"
    /\ k_speech = 0
    /\ k_trail = 0
    /\ blocks = 0
    /\ finalize_count = 0
    /\ first_final_size = 0
    /\ heard = Nil
    /\ block_polls = TRUE

\* the session globals when the module has been loaded (lines 36-42, 1034-1035)
SessInit ==
    /\ recording_thread = 0
    /\ stop_event = FALSE
    /\ recording_should_run = FALSE
    /\ recording_params = Nil
    /\ tts_thread = 0
    /\ tts_stop_event = FALSE
    /\ threads = <<>>
    /\ sess_pc = "idle"
    /\ was_recording = FALSE
    /\ sess_ret = Nil
    /\ last_op = "none"
    /\ start_ret = Nil
    /\ starts = 0
    /\ applies = 0
    /\ active_before = FALSE
    /\ thread_at_apply = 0

\* callers of start_tts_worker: a poll, a session start, a synchronous request
Starters == {"poll", "sess", "sync"}

TtsInit ==
    /\ stw_pc = [c \in Starters |-> "idle"]
    /\ stw_new = [c \in Starters |-> 0]
    /\ in_synthesis = {}
    /\ channels = [n \in 1..MaxJobs |-> <<>>]
    /\ jobs = 0
    /\ play_log = <<>>
    /\ synth_result = [n \in 1..MaxJobs |-> "none"]
    /\ handled = {}
    /\ stw_raised = {}

\* the empty text of a text box
EmptyText == <<"">>

\* last_valid_transcription = ""; last_valid_translation = ""
UiInit ==
    /\ ui_pc = "idle"
    /\ last_valid_transcription = EmptyText
    /\ last_valid_translation = EmptyText
    /\ ui_out = [transcription |-> EmptyText, translation |-> EmptyText]

\* transcribing_event = threading.Event()
RecInit ==
    /\ transcribing_event = FALSE
    /\ in_transcription = {}

OwnInit ==
    /\ own_pc = "idle"
    /\ poll_audio = <<>>
    /\ apply_pc = "idle"
    /\ old_audio = <<>>
    /\ new_duration = SegBufSeconds
    /\ buffer_id = 1
    /\ appended_to = 0
    /\ size_at_add = 0

\* translator_core.py lines 601-606; the clock of the machine is far from 0.0
HealthInit ==
    /\ last_health_check_ts = 0
    /\ last_ollama_ok = FALSE
    /\ last_tts_ok = FALSE
    /\ ollama_fail_count = 0
    /\ tts_fail_count = 0
    /\ services_ok_event = FALSE
    /\ clock = HealthDebounce
    /\ health_log = <<>>
    /\ health_ret = <<FALSE, FALSE>>

CoreInit ==
    /\ sent_text = <<>>
    /\ sent_ret = FALSE
    /\ HealthInit

HandlerInit == UiInit /\ RecInit /\ OwnInit /\ CoreInit

ExtInit == SessInit /\ TtsInit /\ HandlerInit

\* the state SpecBuf leaves alone
BufIdle ==
    /\ cb = NewBuffer(BufSeconds)
    /\ appended = <<>>
    /\ next_tag = 1
    /\ op = "init"
    /\ arg = 0
    /\ ret = <<>>

InitBuf == BufInit /\ PipeInit /\ SegInit /\ ExtInit /\ voice = "none"

SpecBuf == InitBuf /\ [][NextBuf]_vars

Init == BufIdle /\ PipeInit /\ SegInit /\ ExtInit

\* schedule_translation_task._on_complete, run for the future i whose
\* fut.result() gave `res` (Nil when it raised or returned None): the TTS job
\* it enqueues, if any, and the result it puts
OnCompleteResult(i, res) ==
    [id |-> futures[i].tid, transcription |-> futures[i].text,
     translation |-> res, fut |-> i]

\* a plausible slip: the TTS job is enqueued whatever the translation
OnCompleteEnqueuesTtsAlways(res) ==
    voice # "" /\ voice # "none"

\* if translation and voice and str(voice).lower() != "none"
OnCompleteEnqueuesTts(res) ==
    res # Nil /\ voice # "" /\ voice # "none"

OnCompleteTts(i, res) ==
    IF OnCompleteEnqueuesTts(res)
    THEN <<[translation |-> res, voice |-> voice, result_queue |-> Nil, fut |-> i]>>
    ELSE <<>>

\* fut.result() as _on_complete sees it: the translation, or None after an
\* exception (a worker error or the CancelledError of a cancelled future)
ResultOf(st, outcome, text) ==
    IF st = "done" /\ outcome = "ok" THEN Translation(text) ELSE Nil

\* what a finished future keeps of the worker's outcome
Kept(outcome) == IF outcome = "ok" THEN "ok" ELSE "error"

Started ==
    Len(assigned)
    + Cardinality({t \in Dispatchers : pc[t] \in {"id_load", "id_store", "id_ret"}})

\* the futures of executor e still queued and with a callback attached, by
\* index and in submission order
CancelNotified(e) ==
    LET Notified(k) == /\ futures[k].ex = e
                       /\ futures[k].st = "pending"
                       /\ futures[k].has_cb
    IN  SelectSeq([k \in 1..Len(futures) |-> k], Notified)

\* ---- next_transcription_id: transcription_sequence += 1 is a load, an add
\* ---- and a store of the global; the return loads it again
NextIdLoad(t) ==
    /\ pc[t] = "id_load"
    /\ loc' = [loc EXCEPT ![t].tmp = transcription_sequence]
    /\ pc' = [pc EXCEPT ![t] = "id_store"]
    /\ UNCHANGED <<transcription_sequence, last_displayed_transcription_id,
                   translation_results_queue, tts_queue, translation_executor,
                   translation_workers, voice, executors, futures,
                   new_worker_count, latest_result, held, poll_ret, sync_ret,
                   drained_now, drained_all, assigned, put_log, display_log,
                   raised, refreshes, syncs, bufvars, segvars, extvars>>

NextIdStore(t) ==
    /\ pc[t] = "id_store"
    /\ transcription_sequence' = loc[t].tmp + 1
    /\ pc' = [pc EXCEPT ![t] = "id_ret"]
    /\ UNCHANGED <<loc, last_displayed_transcription_id,
                   translation_results_queue, tts_queue, translation_executor,
                   translation_workers, voice, executors, futures,
                   new_worker_count, latest_result, held, poll_ret, sync_ret,
                   drained_now, drained_all, assigned, put_log, display_log,
                   raised, refreshes, syncs, bufvars, segvars, extvars>>

NextIdReturn(t) ==
    /\ pc[t] = "id_ret"
    /\ loc' = [loc EXCEPT ![t].id = transcription_sequence]
    /\ assigned' = Append(assigned, transcription_sequence)
    /\ pc' = [pc EXCEPT ![t] = "get_executor"]
    /\ UNCHANGED <<transcription_sequence, last_displayed_transcription_id,
                   translation_results_queue, tts_queue, translation_executor,
                   translation_workers, voice, executors, futures,
                   new_worker_count, latest_result, held, poll_ret, sync_ret,
                   drained_now, drained_all, put_log, display_log,
                   raised, refreshes, syncs, bufvars, segvars, extvars>>

\* ---- get_translation_executor, as called by schedule_translation_task
GetExecutor(t) ==
    /\ pc[t] = "get_executor"
    /\ IF translation_executor = 0
       THEN /\ executors' = Append(executors,
                   [max_workers |-> get_translation_worker_count, shutdown |-> FALSE])
            /\ translation_executor' = Len(executors) + 1
            /\ loc' = [loc EXCEPT ![t].ex = Len(executors) + 1]
       ELSE /\ loc' = [loc EXCEPT ![t].ex = translation_executor]
            /\ UNCHANGED <<executors, translation_executor>>
    /\ pc' = [pc EXCEPT ![t] = "submit"]
    /\ UNCHANGED <<transcription_sequence, last_displayed_transcription_id,
                   translation_results_queue, tts_queue,
                   translation_workers, voice, futures,
                   new_worker_count, latest_result, held, poll_ret, sync_ret,
                   drained_now, drained_all, assigned, put_log, display_log,
                   raised, refreshes, syncs, bufvars, segvars, extvars>>

\* ---- executor.submit(core.translate, ...): ThreadPoolExecutor.submit raises
\* ---- RuntimeError on an executor that has been shut down, and nothing in
\* ---- schedule_translation_task or its callers up to the poll catches it
SubmitRaises(ex) == executors[ex].shutdown

Submit(t) ==
    /\ pc[t] = "submit"
    /\ IF SubmitRaises(loc[t].ex)
       THEN /\ raised' = raised \cup {t}
            /\ pc' = [pc EXCEPT ![t] = "idle"]
            /\ loc' = [loc EXCEPT ![t] = NoLocals]
            /\ poll_ret' = IF t = "poll" THEN NoResult ELSE poll_ret
            /\ sync_ret' = IF t = "sync" THEN Nil ELSE sync_ret
            /\ latest_result' = IF t = "poll" THEN NoResult ELSE latest_result
            /\ drained_now' = IF t = "poll" THEN <<>> ELSE drained_now
            /\ UNCHANGED futures
       ELSE /\ futures' = Append(futures,
                   [tid |-> loc[t].id, text |-> loc[t].text, ex |-> loc[t].ex,
                    st |-> "pending", outcome |-> "error",
                    has_cb |-> FALSE, cb_done |-> FALSE])
            /\ loc' = [loc EXCEPT ![t].fut = Len(futures) + 1]
            /\ pc' = [pc EXCEPT ![t] = "add_callback"]
            /\ UNCHANGED <<raised, poll_ret, sync_ret, latest_result, drained_now>>
    /\ UNCHANGED <<transcription_sequence, last_displayed_transcription_id,
                   translation_results_queue, tts_queue, translation_executor,
                   translation_workers, voice, executors,
                   new_worker_count, held,
                   drained_all, assigned, put_log, display_log,
                   refreshes, syncs, bufvars, segvars, extvars>>

\* ---- future.add_done_callback(_on_complete): a future that is already done
\* ---- or cancelled calls the callback at once, in the submitting thread
AddCallback(t) ==
    LET i   == loc[t].fut
        f   == futures[i]
        res == ResultOf(f.st, f.outcome, f.text)
        now == f.st \in {"done", "cancelled"}
    IN  /\ pc[t] = "add_callback"
        /\ futures' = [futures EXCEPT ![i].has_cb = TRUE, ![i].cb_done = now]
        /\ IF now
           THEN /\ tts_queue' = tts_queue \o OnCompleteTts(i, res)
                /\ translation_results_queue' =
                       Append(translation_results_queue, OnCompleteResult(i, res))
                /\ put_log' = Append(put_log, OnCompleteResult(i, res))
           ELSE UNCHANGED <<tts_queue, translation_results_queue, put_log>>
        /\ IF t = "poll"
           THEN /\ pc' = [pc EXCEPT ![t] = "idle"]
                /\ poll_ret' = [id |-> loc[t].id, transcription |-> loc[t].text,
                                translation |-> Nil, fut |-> i]
                /\ loc' = [loc EXCEPT ![t] = NoLocals]
                /\ latest_result' = NoResult
                /\ drained_now' = <<>>
           ELSE /\ pc' = [pc EXCEPT ![t] = "wait"]
                /\ UNCHANGED <<poll_ret, loc, latest_result, drained_now>>
        /\ UNCHANGED <<transcription_sequence, last_displayed_transcription_id,
                       translation_executor, translation_workers, voice,
                       executors, new_worker_count, held,
                       sync_ret, drained_all, assigned,
                       display_log, raised, refreshes, syncs, bufvars, segvars, extvars>>

\* ---- the pool: a worker thread takes the oldest pending work item of its
\* ---- executor when fewer than max_workers are running
Running(ex) == Cardinality({k \in 1..Len(futures) :
                              futures[k].ex = ex /\ futures[k].st = "running"})

WorkerStart(i) ==
    /\ futures[i].st = "pending"
    /\ \A k \in 1..(i - 1) :
           ~(futures[k].ex = futures[i].ex /\ futures[k].st = "pending")
    /\ Running(futures[i].ex) < executors[futures[i].ex].max_workers
    /\ futures' = [futures EXCEPT ![i].st = "running"]
    /\ UNCHANGED <<transcription_sequence, last_displayed_transcription_id,
                   translation_results_queue, tts_queue, translation_executor,
                   translation_workers, voice, executors, pc, loc,
                   new_worker_count, latest_result, held, poll_ret, sync_ret,
                   drained_now, drained_all, assigned, put_log, display_log,
                   raised, refreshes, syncs, bufvars, segvars, extvars>>

\* ---- core.translate returns or raises in the worker; the future is set and
\* ---- its callback, if already added, runs in the worker thread
WorkerFinish(i) ==
    \E outcome \in Outcomes :
        LET res == ResultOf("done", outcome, futures[i].text)
        IN  /\ futures[i].st = "running"
            /\ futures' = [futures EXCEPT ![i].st = "done", ![i].outcome = Kept(outcome),
                                          ![i].cb_done = futures[i].has_cb]
            /\ IF futures[i].has_cb
               THEN /\ tts_queue' = tts_queue \o OnCompleteTts(i, res)
                    /\ translation_results_queue' =
                           Append(translation_results_queue, OnCompleteResult(i, res))
                    /\ put_log' = Append(put_log, OnCompleteResult(i, res))
               ELSE UNCHANGED <<tts_queue, translation_results_queue, put_log>>
            /\ UNCHANGED <<transcription_sequence, last_displayed_transcription_id,
                           translation_executor, translation_workers, voice,
                           executors, pc, loc, new_worker_count, latest_result,
                           held, poll_ret, sync_ret, drained_now, drained_all,
                           assigned, display_log, raised, refreshes, syncs,
                           bufvars, segvars, extvars>>

\* ---- refresh_translation_executor(new_worker_count), called by
\* ---- apply_all_settings with a worker count clamped to 1..8
RefreshBegin ==
    /\ pc["cfg"] = "idle"
    /\ refreshes < MaxRefresh
    /\ \E n \in WorkerCounts : new_worker_count' = n
    /\ refreshes' = refreshes + 1
    /\ pc' = [pc EXCEPT !["cfg"] = "shutdown"]
    /\ UNCHANGED <<transcription_sequence, last_displayed_transcription_id,
                   translation_results_queue, tts_queue, translation_executor,
                   translation_workers, voice, executors, futures, loc,
                   latest_result, held, poll_ret, sync_ret,
                   drained_now, drained_all, assigned, put_log, display_log,
                   raised, syncs, bufvars, segvars, extvars>>

\* translation_executor.shutdown(wait=False, cancel_futures=True): the work
\* items still queued are cancelled (their callbacks run with a
\* CancelledError), the running ones go on, the executor takes no more work
RefreshShutdown ==
    LET e == translation_executor
        Cancelled(k) == futures[k].ex = e /\ futures[k].st = "pending"
        puts == [j \in 1..Len(CancelNotified(e)) |->
                    OnCompleteResult(CancelNotified(e)[j], Nil)]
    IN  /\ pc["cfg"] = "shutdown"
        /\ IF e # 0
           THEN /\ executors' = [executors EXCEPT ![e].shutdown = TRUE]
                /\ futures' = [k \in 1..Len(futures) |->
                                 IF Cancelled(k)
                                 THEN [futures[k] EXCEPT !.st = "cancelled",
                                                         !.cb_done = futures[k].has_cb]
                                 ELSE futures[k]]
                /\ translation_results_queue' = translation_results_queue \o puts
                /\ put_log' = put_log \o puts
                /\ pc' = [pc EXCEPT !["cfg"] = "clear"]
           ELSE /\ pc' = [pc EXCEPT !["cfg"] = "pref"]
                /\ UNCHANGED <<executors, futures, translation_results_queue, put_log>>
        /\ UNCHANGED <<transcription_sequence, last_displayed_transcription_id,
                       tts_queue, translation_executor, translation_workers,
                       voice, loc, new_worker_count, latest_result, held,
                       poll_ret, sync_ret, drained_now, drained_all, assigned,
                       display_log, raised, refreshes, syncs, bufvars, segvars, extvars>>

\* translation_executor = None
RefreshClear ==
    /\ pc["cfg"] = "clear"
    /\ translation_executor' = 0
    /\ pc' = [pc EXCEPT !["cfg"] = "pref"]
    /\ UNCHANGED <<transcription_sequence, last_displayed_transcription_id,
                   translation_results_queue, tts_queue,
                   translation_workers, voice, executors, futures, loc,
                   new_worker_count, latest_result, held, poll_ret, sync_ret,
                   drained_now, drained_all, assigned, put_log, display_log,
                   raised, refreshes, syncs, bufvars, segvars, extvars>>

\* if new_worker_count: user_preferences["translation_workers"] = new_worker_count
RefreshPref ==
    /\ pc["cfg"] = "pref"
    /\ translation_workers' =
           IF new_worker_count # 0 THEN new_worker_count ELSE translation_workers
    /\ pc' = [pc EXCEPT !["cfg"] = "recreate"]
    /\ UNCHANGED <<transcription_sequence, last_displayed_transcription_id,
                   translation_results_queue, tts_queue, translation_executor,
                   voice, executors, futures, loc,
                   new_worker_count, latest_result, held, poll_ret, sync_ret,
                   drained_now, drained_all, assigned, put_log, display_log,
                   raised, refreshes, syncs, bufvars, segvars, extvars>>

\* return get_translation_executor()
RefreshRecreate ==
    /\ pc["cfg"] = "recreate"
    /\ IF translation_executor = 0
       THEN /\ executors' = Append(executors,
                   [max_workers |-> get_translation_worker_count, shutdown |-> FALSE])
            /\ translation_executor' = Len(executors) + 1
       ELSE UNCHANGED <<executors, translation_executor>>
    /\ pc' = [pc EXCEPT !["cfg"] = "idle"]
    /\ UNCHANGED <<transcription_sequence, last_displayed_transcription_id,
                   translation_results_queue, tts_queue,
                   translation_workers, voice, futures, loc,
                   new_worker_count, latest_result, held, poll_ret, sync_ret,
                   drained_now, drained_all, assigned, put_log, display_log,
                   raised, refreshes, syncs, bufvars, segvars, extvars>>

\* ---- check_audio_queue: the reconciler at its top, then the segmenter, of
\* ---- which Spec keeps only the outcome (an accepted transcript or none)
PollBegin ==
    /\ pc["poll"] = "idle"
    /\ pc' = [pc EXCEPT !["poll"] = "drain"]
    /\ UNCHANGED <<transcription_sequence, last_displayed_transcription_id,
                   translation_results_queue, tts_queue, translation_executor,
                   translation_workers, voice, executors, futures, loc,
                   new_worker_count, held, poll_ret, sync_ret,
                   latest_result, drained_now,
                   drained_all, assigned, put_log, display_log,
                   raised, refreshes, syncs, bufvars, segvars, extvars>>

\* if translation: latest_result = result
DrainKeeps(result) == result.translation # Nil

\* one turn of the drain loop: translation_results_queue.get_nowait()
PollDrainGet ==
    LET result == Head(translation_results_queue)
    IN  /\ pc["poll"] = "drain"
        /\ translation_results_queue # <<>>
        /\ translation_results_queue' = Tail(translation_results_queue)
        /\ latest_result' = IF DrainKeeps(result) THEN result ELSE latest_result
        /\ drained_now' = Append(drained_now, result)
        /\ drained_all' = drained_all \cup {result.fut}
        /\ UNCHANGED <<transcription_sequence, last_displayed_transcription_id,
                       tts_queue, translation_executor, translation_workers,
                       voice, executors, futures, pc, loc, new_worker_count,
                       held, poll_ret, sync_ret, assigned, put_log,
                       display_log, raised, refreshes, syncs, bufvars, segvars, extvars>>

\* get_nowait() raises queue.Empty: the loop ends
PollDrainEmpty ==
    /\ pc["poll"] = "drain"
    /\ translation_results_queue = <<>>
    /\ pc' = [pc EXCEPT !["poll"] = "reconcile"]
    /\ UNCHANGED <<transcription_sequence, last_displayed_transcription_id,
                   translation_results_queue, tts_queue, translation_executor,
                   translation_workers, voice, executors, futures, loc,
                   new_worker_count, latest_result, held, poll_ret, sync_ret,
                   drained_now, drained_all, assigned, put_log, display_log,
                   raised, refreshes, syncs, bufvars, segvars, extvars>>

\* a plausible slip: any candidate other than the one on display is shown
IsNewerOrOlder(transcription_id, last_id) == transcription_id # last_id

\* transcription_id > last_displayed_transcription_id
IsNewer(transcription_id, last_id) == transcription_id > last_id

\* if latest_result: ... return transcription, translation, None
PollReconcile ==
    /\ pc["poll"] = "reconcile"
    /\ IF latest_result # NoResult
          /\ IsNewer(latest_result.id, last_displayed_transcription_id)
       THEN /\ last_displayed_transcription_id' = latest_result.id
            /\ poll_ret' = latest_result
            /\ display_log' = Append(display_log, latest_result.id)
            /\ pc' = [pc EXCEPT !["poll"] = "idle"]
            /\ latest_result' = NoResult
            /\ drained_now' = <<>>
       ELSE /\ pc' = [pc EXCEPT !["poll"] = "segment"]
            /\ UNCHANGED <<last_displayed_transcription_id, poll_ret, display_log,
                           latest_result, drained_now>>
    /\ UNCHANGED <<transcription_sequence,
                   translation_results_queue, tts_queue, translation_executor,
                   translation_workers, voice, executors, futures, loc,
                   new_worker_count, held, sync_ret,
                   drained_all, assigned, put_log,
                   raised, refreshes, syncs, bufvars, segvars, extvars>>

\* the rest of the poll finalizes nothing, or a transcript it rejects
PollNoTranscript ==
    /\ pc["poll"] = "segment"
    /\ poll_ret' = NoResult
    /\ pc' = [pc EXCEPT !["poll"] = "idle"]
    /\ latest_result' = NoResult
    /\ drained_now' = <<>>
    /\ UNCHANGED <<transcription_sequence, last_displayed_transcription_id,
                   translation_results_queue, tts_queue, translation_executor,
                   translation_workers, voice, executors, futures, loc,
                   new_worker_count, held, sync_ret,
                   drained_all, assigned, put_log, display_log,
                   raised, refreshes, syncs, bufvars, segvars, extvars>>

\* the rest of the poll finalizes an utterance and accepts its transcript:
\* transcription_id = next_transcription_id(); schedule_translation_task(...)
PollTranscript(limit) ==
    /\ pc["poll"] = "segment"
    /\ Started < limit
    /\ loc' = [loc EXCEPT !["poll"] = [NoLocals EXCEPT !.text = Utterance(Started + 1)]]
    /\ pc' = [pc EXCEPT !["poll"] = "id_load"]
    /\ UNCHANGED <<transcription_sequence, last_displayed_transcription_id,
                   translation_results_queue, tts_queue, translation_executor,
                   translation_workers, voice, executors, futures,
                   new_worker_count, latest_result, held, poll_ret, sync_ret,
                   drained_now, drained_all, assigned, put_log, display_log,
                   raised, refreshes, syncs, bufvars, segvars, extvars>>

\* ---- process_audio: transcribe, dispatch, then wait for the own result
SyncBegin(limit) ==
    /\ pc["sync"] = "idle"
    /\ syncs < MaxSync
    /\ Started < limit
    /\ syncs' = syncs + 1
    /\ loc' = [loc EXCEPT !["sync"] = [NoLocals EXCEPT !.text = Utterance(Started + 1)]]
    /\ pc' = [pc EXCEPT !["sync"] = "id_load"]
    /\ UNCHANGED <<transcription_sequence, last_displayed_transcription_id,
                   translation_results_queue, tts_queue, translation_executor,
                   translation_workers, voice, executors, futures,
                   new_worker_count, latest_result, held, poll_ret, sync_ret,
                   drained_now, drained_all, assigned, put_log, display_log,
                   raised, refreshes, bufvars, segvars, extvars>>

\* translation_results_queue.get(timeout=0.1) returns a result
SyncGet ==
    /\ pc["sync"] = "wait"
    /\ translation_results_queue # <<>>
    /\ held' = Head(translation_results_queue)
    /\ translation_results_queue' = Tail(translation_results_queue)
    /\ pc' = [pc EXCEPT !["sync"] = "check"]
    /\ UNCHANGED <<transcription_sequence, last_displayed_transcription_id,
                   tts_queue, translation_executor,
                   translation_workers, voice, executors, futures, loc,
                   new_worker_count, latest_result, poll_ret, sync_ret,
                   drained_now, drained_all, assigned, put_log, display_log,
                   raised, refreshes, syncs, bufvars, segvars, extvars>>

\* if tid == transcription_id and translation: return; else put it back
SyncCheck ==
    /\ pc["sync"] = "check"
    /\ IF held.id = loc["sync"].id /\ held.translation # Nil
       THEN /\ sync_ret' = held.translation
            /\ pc' = [pc EXCEPT !["sync"] = "idle"]
            /\ loc' = [loc EXCEPT !["sync"] = NoLocals]
            /\ UNCHANGED translation_results_queue
       ELSE /\ translation_results_queue' = Append(translation_results_queue, held)
            /\ pc' = [pc EXCEPT !["sync"] = "wait"]
            /\ UNCHANGED <<sync_ret, loc>>
    /\ held' = NoResult
    /\ UNCHANGED <<transcription_sequence, last_displayed_transcription_id,
                   tts_queue, translation_executor,
                   translation_workers, voice, executors, futures,
                   new_worker_count, latest_result, poll_ret,
                   drained_now, drained_all, assigned, put_log, display_log,
                   raised, refreshes, syncs, bufvars, segvars, extvars>>

\* the deadline passes: return transcription, "Translation pending", None
SyncTimeout ==
    /\ pc["sync"] = "wait"
    /\ sync_ret' = <<"Translation pending">>
    /\ pc' = [pc EXCEPT !["sync"] = "idle"]
    /\ loc' = [loc EXCEPT !["sync"] = NoLocals]
    /\ UNCHANGED <<transcription_sequence, last_displayed_transcription_id,
                   translation_results_queue, tts_queue, translation_executor,
                   translation_workers, voice, executors, futures,
                   new_worker_count, latest_result, held, poll_ret,
                   drained_now, drained_all, assigned, put_log, display_log,
                   raised, refreshes, syncs, bufvars, segvars, extvars>>

\* the polling thread and the pool
Next ==
    \/ NextIdLoad("poll") \/ NextIdStore("poll") \/ NextIdReturn("poll")
    \/ GetExecutor("poll") \/ Submit("poll") \/ AddCallback("poll")
    \/ \E i \in 1..Len(futures) : WorkerStart(i)
    \/ \E i \in 1..Len(futures) : WorkerFinish(i)
    \/ PollBegin \/ PollDrainGet \/ PollDrainEmpty \/ PollReconcile
    \/ PollNoTranscript \/ PollTranscript(MaxTasks)

Spec == Init /\ [][Next]_vars

\* all the threads
NextRace ==
    \/ \E t \in Dispatchers : NextIdLoad(t)
    \/ \E t \in Dispatchers : NextIdStore(t)
    \/ \E t \in Dispatchers : NextIdReturn(t)
    \/ \E t \in Dispatchers : GetExecutor(t)
    \/ \E t \in Dispatchers : Submit(t)
    \/ \E t \in Dispatchers : AddCallback(t)
    \/ \E i \in 1..Len(futures) : WorkerStart(i)
    \/ \E i \in 1..Len(futures) : WorkerFinish(i)
    \/ RefreshBegin \/ RefreshShutdown \/ RefreshClear \/ RefreshPref \/ RefreshRecreate
    \/ PollBegin \/ PollDrainGet \/ PollDrainEmpty \/ PollReconcile
    \/ PollNoTranscript \/ PollTranscript(MaxRaceTasks)
    \/ SyncBegin(MaxRaceTasks) \/ SyncGet \/ SyncCheck \/ SyncTimeout

InitRace == Init /\ voice = "af_heart"

SpecRace == InitRace /\ [][NextRace]_vars

\* the queue drained by the loop of lines 1557-1568: the last result with a
\* translation is the one left in latest_result
LastNonEmptyResult(rs) ==
    LET good == {k \in 1..Len(rs) : DrainKeeps(rs[k])}
    IN  IF good = {} THEN NoResult
        ELSE rs[CHOOSE k \in good : \A j \in good : k >= j]

\* ---------------------------------------------------------------- SpecSeg
\* check_audio_queue as one step per poll, on the blocks the capture thread
\* has enqueued since the poll before.  Blocks arrive at TARGET_RATE, so the
\* resampling step copies them.  The recognizer is an oracle.

\* sample amplitudes, in units of 0.0001: silence and speech
Silence == 0
Speech == 1000
Amplitudes == {Silence, Speech}

\* one captured block: block_duration_ms of samples of one amplitude
Block(amplitude) == [k \in 1..TARGET_RATE |-> amplitude]

Abs(x) == IF x < 0 THEN -x ELSE x

RECURSIVE SumAbs(_)
SumAbs(audio) == IF audio = <<>> THEN 0 ELSE Abs(Head(audio)) + SumAbs(Tail(audio))

RECURSIVE Concatenate(_)
\* np.concatenate over the queued blocks
Concatenate(chunks) ==
    IF chunks = <<>> THEN <<>> ELSE Head(chunks) \o Concatenate(Tail(chunks))

\* core.is_speech: min_threshold < np.abs(audio_chunk).mean() < max_threshold
is_speech(audio_chunk) ==
    /\ Len(audio_chunk) > 0
    /\ MIN_ENERGY * Len(audio_chunk) < SumAbs(audio_chunk)
    /\ SumAbs(audio_chunk) < MAX_ENERGY * Len(audio_chunk)

\* texts the recognizer may return, as character sequences
SegTexts == { <<"a">>, <<"a", ".">>, <<"b", ".">> }

\* str.strip()
RECURSIVE StripRight(_)
StripRight(text) ==
    IF text # <<>> /\ text[Len(text)] = " "
    THEN StripRight(SubSeq(text, 1, Len(text) - 1)) ELSE text

RECURSIVE StripLeft(_)
StripLeft(text) ==
    IF text # <<>> /\ Head(text) = " " THEN StripLeft(Tail(text)) ELSE text

Strip(text) == StripLeft(StripRight(text))

\* len(text.split()): the number of maximal runs of non-blank characters
WordCount(text) ==
    Cardinality({k \in 1..Len(text) :
                   text[k] # " " /\ (k = 1 \/ text[k - 1] = " ")})

\* a plausible slip: the pattern applied to the text as it came
is_complete_sentence_unstripped(text) ==
    IF text = <<>> \/ text = Nil THEN FALSE
    ELSE IF text[Len(text)] \in {".", "!", "?"}
    THEN TRUE
    ELSE WordCount(text) >= 5

\* core.is_complete_sentence
is_complete_sentence(text) ==
    IF text = <<>> \/ text = Nil THEN FALSE
    ELSE IF Strip(text) # <<>> /\ Strip(text)[Len(Strip(text))] \in {".", "!", "?"}
    THEN TRUE
    ELSE WordCount(text) >= 5

\* core.transcribe_audio: None for pure silence or too little energy, else
\* what the recognizer makes of the audio: a text, or None (empty text, error)
TranscribeOutcomes(audio) ==
    IF SumAbs(audio) = 0 \/ SumAbs(audio) < MIN_TRANSCRIBE_ENERGY * Len(audio)
    THEN {Nil}
    ELSE SegTexts \cup {Nil}

MIN_SPEECH_SIZE == SecondsToSamples(MIN_SPEECH_DURATION)
MAX_SPEECH_SIZE == SecondsToSamples(MAX_SPEECH_DURATION)

\* overlap_audio = audio_buffer.get_overlap(BUFFER_OVERLAP); audio_buffer.clear();
\* if len(overlap_audio) > 0: audio_buffer.add_audio(overlap_audio)
RetainOverlap(b) ==
    IF Len(get_overlap(b, BUFFER_OVERLAP)) > 0
    THEN add_audio(clear(b), get_overlap(b, BUFFER_OVERLAP))
    ELSE clear(b)

\* silence_counter is only ever compared with MIN_SILENCE_DURATION: values
\* above it are kept as MIN_SILENCE_DURATION + 1
Capped(counter) ==
    IF counter > MIN_SILENCE_DURATION THEN MIN_SILENCE_DURATION + 1 ELSE counter

\* the capture callback enqueues a block
SegCapture ==
    /\ blocks < MaxBlocks
    /\ Len(audio_queue) < MaxQueued
    /\ \E amplitude \in Amplitudes :
          /\ audio_queue' = Append(audio_queue, Block(amplitude))
          /\ phase' = IF amplitude = Speech
                      THEN (IF phase \in {"lead", "speech"} THEN "speech" ELSE "other")
                      ELSE (IF phase = "speech" THEN "trail" ELSE phase)
          /\ k_speech' = IF amplitude = Speech THEN k_speech + 1 ELSE k_speech
          /\ k_trail' = IF amplitude = Silence /\ phase \in {"speech", "trail"}
                        THEN k_trail + 1 ELSE k_trail
    /\ blocks' = blocks + 1
    /\ UNCHANGED <<audio_buffer, silence_counter, is_speaking, last_transcription,
                   finalize_count, first_final_size, heard, block_polls, pipevars,
                   bufvars, extvars>>

\* next_transcription_id() and schedule_translation_task(...) in a poll that
\* no other thread interleaves with: the id, the executor and the future
SegDispatch(text) ==
    /\ transcription_sequence' = transcription_sequence + 1
    /\ assigned' = Append(assigned, transcription_sequence + 1)
    /\ IF translation_executor = 0
       THEN /\ executors' = Append(executors,
                   [max_workers |-> get_translation_worker_count, shutdown |-> FALSE])
            /\ translation_executor' = Len(executors) + 1
       ELSE UNCHANGED <<executors, translation_executor>>
    /\ futures' = Append(futures,
           [tid |-> transcription_sequence + 1, text |-> text,
            ex |-> translation_executor', st |-> "pending", outcome |-> "error",
            has_cb |-> TRUE, cb_done |-> FALSE])

NoDispatch ==
    UNCHANGED <<transcription_sequence, assigned, executors, translation_executor,
                futures>>

\* a buffer is handed to core.transcribe_audio
Handed(buffer_audio) ==
    /\ finalize_count' = Min(finalize_count + 1, MaxFinalizeCount)
    /\ first_final_size' = IF finalize_count = 0 THEN Len(buffer_audio)
                           ELSE first_final_size

NotHanded == UNCHANGED <<finalize_count, first_final_size, heard>>

\* transcription, detected_code = core.transcribe_audio(buffer_audio, ...)
Heard(transcription) == heard' = transcription

\* the recognizer returns no text a further dispatch could take once
\* MaxSegTasks tasks have been dispatched
Recognized(audio) ==
    IF Len(futures) < MaxSegTasks THEN TranscribeOutcomes(audio) ELSE {Nil}

\* lines 1599-1651: no new audio
SegIdle ==
    IF ~is_speaking /\ audio_buffer.data_size > MIN_SPEECH_SIZE
                    /\ silence_counter > MIN_SILENCE_DURATION
    THEN \E transcription \in Recognized(get_audio(audio_buffer, None)) :
            /\ Handed(get_audio(audio_buffer, None))
            /\ Heard(transcription)
            /\ IF transcription # Nil /\ transcription # last_transcription
               THEN /\ SegDispatch(transcription)
                    /\ audio_buffer' = IF audio_buffer.data_size > MAX_SPEECH_SIZE
                                       THEN RetainOverlap(audio_buffer)
                                       ELSE audio_buffer
                    /\ is_speaking' = FALSE
                    /\ silence_counter' = 0
                    /\ last_transcription' = transcription
                    /\ poll_ret' = [id |-> transcription_sequence + 1,
                                    transcription |-> transcription,
                                    translation |-> Nil, fut |-> Len(futures) + 1]
               ELSE /\ NoDispatch
                    /\ IF audio_buffer.data_size > MAX_SPEECH_SIZE
                       THEN /\ audio_buffer' = clear(audio_buffer)
                            /\ is_speaking' = FALSE
                            /\ silence_counter' = 0
                       ELSE UNCHANGED <<audio_buffer, is_speaking, silence_counter>>
                    /\ poll_ret' = NoResult
                    /\ UNCHANGED last_transcription
    ELSE /\ silence_counter' = IF ~is_speaking THEN Capped(silence_counter + 1)
                               ELSE silence_counter
         /\ poll_ret' = NoResult
         /\ NoDispatch /\ NotHanded
         /\ UNCHANGED <<audio_buffer, is_speaking, last_transcription>>

\* lines 1719-1769: the chunk is speech
SegSpeech(audio_chunk) ==
    LET added == add_audio(audio_buffer, audio_chunk)
    IN  IF added.data_size >= MAX_SPEECH_SIZE
        THEN \E transcription \in Recognized(get_audio(added, None)) :
                /\ Handed(get_audio(added, None))
                /\ Heard(transcription)
                /\ is_speaking' = TRUE
                /\ silence_counter' = 0
                /\ audio_buffer' = RetainOverlap(added)
                /\ IF transcription # Nil /\ transcription # last_transcription
                   THEN /\ SegDispatch(transcription)
                        /\ last_transcription' = transcription
                        /\ poll_ret' = [id |-> transcription_sequence + 1,
                                        transcription |-> transcription,
                                        translation |-> Nil, fut |-> Len(futures) + 1]
                   ELSE /\ NoDispatch
                        /\ poll_ret' = NoResult
                        /\ UNCHANGED last_transcription
        ELSE /\ is_speaking' = TRUE
             /\ silence_counter' = 0
             /\ audio_buffer' = added
             /\ poll_ret' = NoResult
             /\ NoDispatch /\ NotHanded
             /\ UNCHANGED last_transcription

\* lines 1771-1810: the chunk is silence after speech
SegTrailingSilence(audio_chunk) ==
    LET added   == add_audio(audio_buffer, audio_chunk)
        counter == Capped(silence_counter + Len(audio_chunk) \div TARGET_RATE)
    IN  IF counter >= MIN_SILENCE_DURATION /\ added.data_size >= MIN_SPEECH_SIZE
        THEN \E transcription \in Recognized(get_audio(added, None)) :
                /\ Handed(get_audio(added, None))
                /\ Heard(transcription)
                /\ poll_ret' = NoResult
                /\ UNCHANGED last_transcription
                /\ IF /\ transcription # Nil
                      /\ is_complete_sentence(transcription)
                      /\ transcription # last_transcription
                   THEN /\ SegDispatch(transcription)
                        /\ audio_buffer' = RetainOverlap(added)
                        /\ is_speaking' = FALSE
                        /\ silence_counter' = 0
                   ELSE /\ NoDispatch
                        /\ audio_buffer' = added
                        /\ silence_counter' = counter
                        /\ UNCHANGED is_speaking
        ELSE /\ audio_buffer' = added
             /\ silence_counter' = counter
             /\ poll_ret' = NoResult
             /\ NoDispatch /\ NotHanded
             /\ UNCHANGED <<is_speaking, last_transcription>>

\* lines 1812-1814: silence while not speaking
SegSilence(audio_chunk) ==
    /\ silence_counter' = Capped(silence_counter + Len(audio_chunk) \div TARGET_RATE)
    /\ poll_ret' = NoResult
    /\ NoDispatch /\ NotHanded
    /\ UNCHANGED <<audio_buffer, is_speaking, last_transcription>>

\* check_audio_queue
SegPoll ==
    LET candidate == LastNonEmptyResult(translation_results_queue)
    IN  /\ translation_results_queue' = <<>>
        /\ block_polls' = (block_polls /\ Len(audio_queue) <= 1)
        /\ drained_all' = drained_all \cup
               {translation_results_queue[k].fut :
                    k \in 1..Len(translation_results_queue)}
        /\ IF candidate # NoResult
              /\ IsNewer(candidate.id, last_displayed_transcription_id)
           THEN /\ last_displayed_transcription_id' = candidate.id
                /\ poll_ret' = candidate
                /\ display_log' = Append(display_log, candidate.id)
                /\ NoDispatch /\ NotHanded
                /\ UNCHANGED <<audio_buffer, silence_counter, is_speaking,
                               last_transcription, audio_queue>>
           ELSE /\ UNCHANGED <<last_displayed_transcription_id, display_log>>
                /\ IF audio_queue = <<>>
                   THEN /\ SegIdle
                        /\ UNCHANGED audio_queue
                   ELSE /\ audio_queue' = <<>>
                        /\ IF is_speech(Concatenate(audio_queue))
                           THEN SegSpeech(Concatenate(audio_queue))
                           ELSE IF is_speaking
                           THEN SegTrailingSilence(Concatenate(audio_queue))
                           ELSE SegSilence(Concatenate(audio_queue))
        /\ UNCHANGED <<tts_queue, translation_workers, voice, pc, loc,
                       new_worker_count, latest_result, held, sync_ret,
                       drained_now, put_log, raised, refreshes, syncs,
                       phase, k_speech, k_trail, blocks, bufvars, extvars>>

NextSeg ==
    \/ SegCapture
    \/ SegPoll
    \/ \E i \in 1..Len(futures) : WorkerStart(i)
    \/ \E i \in 1..Len(futures) : WorkerFinish(i)

InitSeg == Init /\ voice = "af_heart"

SpecSeg == InitSeg /\ [][NextSeg]_vars

\* the timer keeps ticking: polls keep running
FairSpecSeg == SpecSeg /\ WF_vars(SegPoll)

\* --------------------------------------------------------------- SpecSess
\* The session handlers (start, stop, apply_all_settings), the capture thread
\* and the speech worker thread.  One UI handler runs at a time; a handler
\* that waits for a thread is cut at the wait.

Started_msg == "Started continuous recording. Speak now..."
AlreadyRecording_msg == "Recording is already in progress."
NoRecording_msg == "No recording in progress."
Stopped_msg == "Recording stopped."

\* the arguments of a start: source and target language, model, voice, device
SessionParams == {<<"params", v>> : v \in Voices}

\* Thread.is_alive()
is_alive(i) == threads[i].st \notin {"created", "dead"}

\* is_recording_active(); also the guard of start and of stop
is_recording_active == recording_thread # 0 /\ is_alive(recording_thread)

\* max_duration_seconds values the settings page can ask for, scaled
BufferDurations == {MAX_SPEECH_DURATION - 1, SegBufSeconds, SegBufSeconds + 1}

\* start_tts_worker, with nothing else running between its lines
StartTtsWorker ==
    IF tts_thread = 0 \/ ~is_alive(tts_thread)
    THEN [stop |-> FALSE,
          made |-> <<[target |-> "tts_worker", st |-> "running", failed |-> FALSE]>>]
    ELSE [stop |-> tts_stop_event, made |-> <<>>]

\* the body of start_continuous_recording once no recording is in progress
StartSession(params) ==
    /\ tts_stop_event' = StartTtsWorker.stop
    /\ tts_thread' = IF StartTtsWorker.made # <<>> THEN Len(threads) + 1 ELSE tts_thread
    /\ recording_should_run' = TRUE
    /\ recording_params' = params
    /\ stop_event' = FALSE
    /\ threads' = threads \o StartTtsWorker.made \o
                  <<[target |-> "record_audio", st |-> "opening", failed |-> FALSE]>>
    /\ recording_thread' = Len(threads) + Len(StartTtsWorker.made) + 1
    /\ sess_ret' = Started_msg
    /\ start_ret' = Started_msg

\* start_continuous_recording, from the Start button
SessStart ==
    /\ sess_pc = "idle"
    /\ starts < MaxStarts
    /\ starts' = starts + 1
    /\ last_op' = "start"
    /\ IF is_recording_active
       THEN /\ sess_ret' = AlreadyRecording_msg
            /\ UNCHANGED <<recording_thread, stop_event, recording_should_run,
                           recording_params, tts_thread, tts_stop_event, threads,
                           start_ret>>
       ELSE \E params \in SessionParams : StartSession(params)
    /\ UNCHANGED <<sess_pc, was_recording, applies, active_before, thread_at_apply,
                   bufvars, pipevars, segvars, ttsvars, handlervars>>

\* stop_continuous_recording(), from the Stop button, up to the join
SessStop ==
    /\ sess_pc = "idle"
    /\ IF ~is_recording_active
       THEN /\ sess_ret' = NoRecording_msg
            /\ last_op' = "stop_noop"
            /\ UNCHANGED <<stop_event, sess_pc>>
       ELSE /\ stop_event' = TRUE
            /\ sess_pc' = "stop_join"
            /\ UNCHANGED <<sess_ret, last_op>>
    /\ UNCHANGED <<recording_thread, recording_should_run, recording_params,
                   tts_thread, tts_stop_event, threads, was_recording, start_ret,
                   starts, applies, active_before, thread_at_apply,
                   bufvars, pipevars, segvars, ttsvars, handlervars>>

\* recording_thread.join(timeout=2.0) has returned, the thread having ended;
\* clear_intent is True
SessStopJoined ==
    /\ sess_pc = "stop_join"
    /\ ~is_alive(recording_thread)
    /\ recording_thread' = 0
    /\ recording_should_run' = FALSE
    /\ recording_params' = Nil
    /\ sess_ret' = Stopped_msg
    /\ last_op' = "stop"
    /\ sess_pc' = "idle"
    /\ UNCHANGED <<stop_event, tts_thread, tts_stop_event, threads, was_recording,
                   start_ret, starts, applies, active_before, thread_at_apply,
                   bufvars, pipevars, segvars, ttsvars, handlervars>>

\* record_audio opens the input stream, or fails to: the exception is logged
\* and the finally clause sets the stop event
CaptureOpen(i) ==
    /\ threads[i].target = "record_audio"
    /\ threads[i].st = "opening"
    /\ \/ /\ threads' = [threads EXCEPT ![i].st = "streaming"]
          /\ UNCHANGED stop_event
       \/ /\ threads' = [threads EXCEPT ![i].st = "dead", ![i].failed = TRUE]
          /\ stop_event' = TRUE
    /\ UNCHANGED <<recording_thread, recording_should_run, recording_params,
                   tts_thread, tts_stop_event, sess_pc, was_recording, sess_ret,
                   last_op, start_ret, starts, applies, active_before,
                   thread_at_apply, bufvars, pipevars, segvars, ttsvars, handlervars>>

\* record_audio sees the stop event, closes the stream and returns
CaptureExit(i) ==
    /\ threads[i].target = "record_audio"
    /\ threads[i].st = "streaming"
    /\ stop_event
    /\ threads' = [threads EXCEPT ![i].st = "dead"]
    /\ UNCHANGED <<recording_thread, stop_event, recording_should_run,
                   recording_params, tts_thread, tts_stop_event, sess_pc,
                   was_recording, sess_ret, last_op, start_ret, starts, applies,
                   active_before, thread_at_apply, bufvars, pipevars, segvars, ttsvars, handlervars>>

\* refresh_translation_executor(new_worker_count), with nothing else running
\* between its lines
RefreshExecutor(worker_count) ==
    LET e == translation_executor
        Cancelled(k) == futures[k].ex = e /\ futures[k].st = "pending"
        puts == [j \in 1..Len(CancelNotified(e)) |->
                    OnCompleteResult(CancelNotified(e)[j], Nil)]
        stopped == IF e # 0 THEN [executors EXCEPT ![e].shutdown = TRUE]
                   ELSE executors
        width == IF worker_count < 1 THEN 1
                 ELSE IF worker_count > 8 THEN 8 ELSE worker_count
    IN  /\ futures' = [k \in 1..Len(futures) |->
                         IF e # 0 /\ Cancelled(k)
                         THEN [futures[k] EXCEPT !.st = "cancelled",
                                                 !.cb_done = futures[k].has_cb]
                         ELSE futures[k]]
        /\ translation_results_queue' =
               IF e # 0 THEN translation_results_queue \o puts
               ELSE translation_results_queue
        /\ put_log' = IF e # 0 THEN put_log \o puts ELSE put_log
        /\ translation_workers' = worker_count
        /\ executors' = Append(stopped, [max_workers |-> width, shutdown |-> FALSE])
        /\ translation_executor' = Len(executors) + 1

\* lines 3052-3058: the buffer is replaced when the capacity asked for differs
ReplaceBuffer(b, buffer_duration) ==
    IF b.max_size # SecondsToSamples(buffer_duration)
    THEN IF Len(get_audio(b, None)) > 0
         THEN add_audio(NewBuffer(buffer_duration),
                        LastN(get_audio(b, None), SecondsToSamples(KeepSeconds)))
         ELSE NewBuffer(buffer_duration)
    ELSE b

\* apply_all_settings up to the join of stop_continuous_recording(False): the
\* executor is refreshed, the buffer replaced, and an active recording told
\* to stop; the timing parameters are definitions of this module
ApplyBegin ==
    /\ sess_pc = "idle"
    /\ applies < MaxApplies
    /\ applies' = applies + 1
    /\ \E worker_count \in WorkerCounts : RefreshExecutor(worker_count)
    /\ \E buffer_duration \in BufferDurations :
          audio_buffer' = ReplaceBuffer(audio_buffer, buffer_duration)
    /\ was_recording' = is_recording_active
    /\ active_before' = is_recording_active
    /\ thread_at_apply' = recording_thread
    /\ IF is_recording_active
       THEN /\ stop_event' = TRUE
            /\ sess_pc' = "apply_join"
       ELSE /\ sess_pc' = "apply_reload"
            /\ UNCHANGED stop_event
    /\ UNCHANGED <<recording_thread, recording_should_run, recording_params,
                   tts_thread, tts_stop_event, threads, sess_ret, last_op,
                   start_ret, starts,
                   transcription_sequence, last_displayed_transcription_id,
                   tts_queue, voice, pc, loc, new_worker_count, latest_result,
                   held, poll_ret, sync_ret, drained_now, drained_all, assigned,
                   display_log, raised, refreshes, syncs,
                   silence_counter, is_speaking, last_transcription, audio_queue,
                   phase, k_speech, k_trail, blocks, finalize_count,
                   first_final_size, heard, block_polls, bufvars, ttsvars, handlervars>>

\* the join has returned; clear_intent is False, so the intent to record and
\* its parameters stay
ApplyJoined ==
    /\ sess_pc = "apply_join"
    /\ ~is_alive(recording_thread)
    /\ recording_thread' = 0
    /\ sess_ret' = Stopped_msg
    /\ sess_pc' = "apply_reload"
    /\ UNCHANGED <<stop_event, recording_should_run, recording_params, tts_thread,
                   tts_stop_event, threads, was_recording, last_op, start_ret,
                   starts, applies, active_before, thread_at_apply,
                   bufvars, pipevars, segvars, ttsvars, handlervars>>

\* reload_whisper_model(force=True) returns, or raises and is logged: the
\* else clause with restart_recording_if_needed runs only when it returned
ApplyReload ==
    /\ sess_pc = "apply_reload"
    /\ \/ sess_pc' = "apply_restart" /\ UNCHANGED last_op
       \/ sess_pc' = "idle" /\ last_op' = "apply"
    /\ UNCHANGED <<recording_thread, stop_event, recording_should_run,
                   recording_params, tts_thread, tts_stop_event, threads,
                   was_recording, sess_ret, start_ret, starts, applies,
                   active_before, thread_at_apply, bufvars, pipevars, segvars, ttsvars, handlervars>>

\* restart_recording_if_needed(was_recording) and the rest of the handler
ApplyRestart ==
    /\ sess_pc = "apply_restart"
    /\ sess_pc' = "idle"
    /\ last_op' = "apply"
    /\ IF was_recording /\ recording_should_run /\ recording_params # Nil
       THEN IF is_recording_active
            THEN /\ sess_ret' = AlreadyRecording_msg
                 /\ UNCHANGED <<recording_thread, stop_event, recording_should_run,
                                recording_params, tts_thread, tts_stop_event,
                                threads, start_ret>>
            ELSE StartSession(recording_params)
       ELSE UNCHANGED <<recording_thread, stop_event, recording_should_run,
                        recording_params, tts_thread, tts_stop_event, threads,
                        sess_ret, start_ret>>
    /\ UNCHANGED <<was_recording, starts, applies, active_before, thread_at_apply,
                   bufvars, pipevars, segvars, ttsvars, handlervars>>

NextSess ==
    \/ SessStart
    \/ SessStop
    \/ SessStopJoined
    \/ ApplyBegin
    \/ ApplyJoined
    \/ ApplyReload
    \/ ApplyRestart
    \/ \E i \in 1..Len(threads) : CaptureOpen(i)
    \/ \E i \in 1..Len(threads) : CaptureExit(i)

InitSess == Init /\ voice = "af_heart"

SpecSess == InitSess /\ [][NextSess]_vars

\* --------------------------------------------------------------- SpecJoin
\* The Start and Stop buttons and the capture threads, with the join of
\* stop_continuous_recording giving up after its timeout.

\* recording_thread.join(timeout=2.0) has returned after 2 s with the thread
\* still alive: the rest of stop_continuous_recording runs all the same
SessStopTimeout ==
    /\ sess_pc = "stop_join"
    /\ is_alive(recording_thread)
    /\ recording_thread' = 0
    /\ recording_should_run' = FALSE
    /\ recording_params' = Nil
    /\ sess_ret' = Stopped_msg
    /\ last_op' = "stop"
    /\ sess_pc' = "idle"
    /\ UNCHANGED <<stop_event, tts_thread, tts_stop_event, threads, was_recording,
                   start_ret, starts, applies, active_before, thread_at_apply,
                   bufvars, pipevars, segvars, ttsvars, handlervars>>

NextJoin ==
    \/ SessStart
    \/ SessStop
    \/ SessStopJoined
    \/ SessStopTimeout
    \/ \E i \in 1..Len(threads) : CaptureOpen(i)
    \/ \E i \in 1..Len(threads) : CaptureExit(i)

SpecJoin == InitSess /\ [][NextJoin]_vars

\* ---------------------------------------------------------------- SpecCut
\* Capture and polls of SpecSeg with the settings page: apply_all_settings,
\* while no recording thread of the session handlers runs, replaces the buffer
\* the polls work on.  The translation workers stay out of the picture: the
\* tasks dispatched here wait in their executor.

NextCut ==
    \/ SegCapture
    \/ SegPoll
    \/ ApplyBegin
    \/ ApplyReload
    \/ ApplyRestart

SpecCut == InitSeg /\ [][NextCut]_vars

\* ---------------------------------------------------------------- SpecTts
\* start_tts_worker line by line in each of its callers, and tts_worker.

\* the voice of a job
JobVoices == {"", "none", "None", "af_heart"}

\* str(voice).lower() on these voices
Lower(v) == IF v = "None" THEN "none" ELSE v

\* a plausible slip: the comparison without lower()
VoiceDisabledCaseSensitive(v) == v = "" \/ v = "none"

\* not voice or str(voice).lower() == "none"
VoiceDisabled(v) == v = "" \/ Lower(v) = "none"

\* the result channel of job n, when it carries one
Channel(n) == <<"chan", n>>

\* what tts_worker puts on a result channel
VoiceDisabled_outcome == [ok |-> TRUE, msg |-> "Voice disabled; no audio generated"]
Played_outcome == [ok |-> TRUE, msg |-> "Audio played successfully"]
Error_outcome == [ok |-> FALSE, msg |-> "str(e)"]

\* how core.text_to_speech_async ends: the audio was played; synthesis or
\* playback failed and the function logged it and returned None; or an
\* exception left the function
SynthOutcomes == {"played", "failed", "raised"}

\* result_queue.put(outcome) on the channel of job n, if it carries one
PutOutcome(job, outcome) ==
    IF job.result_queue # Nil
    THEN [channels EXCEPT ![job.fut] = Append(@, outcome)]
    ELSE channels

\* a producer puts a job on tts_queue, its voice among job_voices and with a
\* result channel or without as with_channels allows
TtsPut(job_voices, with_channels) ==
    /\ jobs < MaxJobs
    /\ jobs' = jobs + 1
    /\ \E v \in job_voices, with_channel \in with_channels :
          tts_queue' = Append(tts_queue,
              [translation |-> Translation(Utterance(jobs + 1)), voice |-> v,
               result_queue |-> IF with_channel THEN Channel(jobs + 1) ELSE Nil,
               fut |-> jobs + 1])
    /\ UNCHANGED <<stw_pc, stw_new, in_synthesis, channels, play_log, synth_result,
                   handled, stw_raised, sessvars, bufvars, segvars,
                   transcription_sequence, last_displayed_transcription_id,
                   translation_results_queue, translation_executor,
                   translation_workers, voice, executors, futures, pc, loc,
                   new_worker_count, latest_result, held, poll_ret, sync_ret,
                   drained_now, drained_all, assigned, put_log, display_log,
                   raised, refreshes, syncs, handlervars>>

\* if tts_thread is None or not tts_thread.is_alive()
StwCheck(c) ==
    /\ stw_pc[c] = "idle"
    /\ Len(threads) + Cardinality({d \in Starters : stw_pc[d] \in {"clear", "create"}})
           < MaxTtsThreads
    /\ ~(tts_thread # 0 /\ is_alive(tts_thread))
    /\ stw_pc' = [stw_pc EXCEPT ![c] = "clear"]
    /\ UNCHANGED <<stw_new, in_synthesis, channels, jobs, play_log, synth_result,
                   handled, stw_raised, sessvars, bufvars, pipevars, segvars, handlervars>>

\* tts_stop_event.clear()
StwClear(c) ==
    /\ stw_pc[c] = "clear"
    /\ tts_stop_event' = FALSE
    /\ stw_pc' = [stw_pc EXCEPT ![c] = "create"]
    /\ UNCHANGED <<stw_new, in_synthesis, channels, jobs, play_log, synth_result,
                   handled, stw_raised, recording_thread, stop_event, recording_should_run,
                   recording_params, tts_thread, threads, sess_pc, was_recording,
                   sess_ret, last_op, start_ret, starts, applies, active_before,
                   thread_at_apply, bufvars, pipevars, segvars, handlervars>>

\* tts_thread = threading.Thread(target=tts_worker, daemon=True)
StwCreate(c) ==
    /\ stw_pc[c] = "create"
    /\ threads' = Append(threads,
                         [target |-> "tts_worker", st |-> "created", failed |-> FALSE])
    /\ tts_thread' = Len(threads) + 1
    /\ stw_new' = [stw_new EXCEPT ![c] = Len(threads) + 1]
    /\ stw_pc' = [stw_pc EXCEPT ![c] = "start"]
    /\ UNCHANGED <<in_synthesis, channels, jobs, play_log, synth_result, handled,
                   stw_raised, recording_thread, stop_event, recording_should_run,
                   recording_params, tts_stop_event, sess_pc, was_recording,
                   sess_ret, last_op, start_ret, starts, applies, active_before,
                   thread_at_apply, bufvars, pipevars, segvars, handlervars>>

\* tts_thread.start(): the global is read again, and starting a Thread a
\* second time raises RuntimeError
StwStart(c) ==
    /\ stw_pc[c] = "start"
    /\ IF threads[tts_thread].st = "created"
       THEN /\ threads' = [threads EXCEPT ![tts_thread].st = "running"]
            /\ UNCHANGED stw_raised
       ELSE /\ stw_raised' = stw_raised \cup {c}
            /\ UNCHANGED threads
    /\ stw_new' = [stw_new EXCEPT ![c] = 0]
    /\ stw_pc' = [stw_pc EXCEPT ![c] = "idle"]
    /\ UNCHANGED <<in_synthesis, channels, jobs, play_log, synth_result, handled,
                   recording_thread, stop_event, recording_should_run,
                   recording_params, tts_thread, tts_stop_event, sess_pc,
                   was_recording, sess_ret, last_op, start_ret, starts, applies,
                   active_before, thread_at_apply, bufvars, pipevars, segvars, handlervars>>

\* a worker has a job in hand
Busy(w) == \E r \in in_synthesis : r.worker = w

\* tts_worker takes a job off tts_queue: a job whose voice is disabled is
\* answered and finished with, any other goes to core.text_to_speech_async.
\* tts_stop_event, the guard of the loop, is set nowhere in main.py
TtsTake(w) ==
    /\ threads[w].target = "tts_worker"
    /\ threads[w].st = "running"
    /\ ~Busy(w)
    /\ ~tts_stop_event
    /\ tts_queue # <<>>
    /\ tts_queue' = Tail(tts_queue)
    /\ LET job == Head(tts_queue)
       IN  IF VoiceDisabled(job.voice)
           THEN /\ channels' = PutOutcome(job, VoiceDisabled_outcome)
                /\ handled' = handled \cup {job}
                /\ UNCHANGED <<in_synthesis, play_log>>
           ELSE /\ in_synthesis' = in_synthesis \cup {[worker |-> w, job |-> job]}
                /\ play_log' = Append(play_log, job.fut)
                /\ UNCHANGED <<channels, handled>>
    /\ UNCHANGED <<stw_pc, stw_new, jobs, synth_result, stw_raised, sessvars,
                   bufvars, segvars,
                   transcription_sequence, last_displayed_transcription_id,
                   translation_results_queue, translation_executor,
                   translation_workers, voice, executors, futures, pc, loc,
                   new_worker_count, latest_result, held, poll_ret, sync_ret,
                   drained_now, drained_all, assigned, put_log, display_log,
                   raised, refreshes, syncs, handlervars>>

\* loop.run_until_complete(core.text_to_speech_async(...)) ends and the
\* worker answers the job's channel and goes back to the queue
TtsDone(w) ==
    \E r \in in_synthesis, outcome \in SynthOutcomes :
        /\ r.worker = w
        /\ in_synthesis' = in_synthesis \ {r}
        /\ synth_result' = [synth_result EXCEPT ![r.job.fut] = outcome]
        /\ channels' = PutOutcome(r.job, IF outcome = "raised" THEN Error_outcome
                                         ELSE Played_outcome)
        /\ handled' = handled \cup {r.job}
        /\ UNCHANGED <<stw_pc, stw_new, jobs, play_log, stw_raised, sessvars,
                       bufvars, pipevars, segvars, handlervars>>

\* start_tts_worker run from its first line to its last by one caller
TtsStart ==
    /\ StartTtsWorker.made # <<>>
    /\ tts_stop_event' = StartTtsWorker.stop
    /\ threads' = threads \o StartTtsWorker.made
    /\ tts_thread' = Len(threads) + 1
    /\ UNCHANGED <<recording_thread, stop_event, recording_should_run,
                   recording_params, sess_pc, was_recording, sess_ret, last_op,
                   start_ret, starts, applies, active_before, thread_at_apply,
                   ttsvars, bufvars, pipevars, segvars, handlervars>>

\* SpecTts: the speech worker and the jobs it is given
NextTts ==
    \/ TtsStart
    \/ TtsPut(JobVoices, BOOLEAN)
    \/ \E w \in 1..Len(threads) : TtsTake(w)
    \/ \E w \in 1..Len(threads) : TtsDone(w)

InitTts == Init /\ voice = "af_heart"

SpecTts == InitTts /\ [][NextTts]_vars

\* the worker is started by every poll and every session start, and a started
\* worker thread keeps running its loop
FairSpecTts ==
    /\ SpecTts
    /\ WF_vars(TtsStart)
    /\ WF_vars(\E w \in 1..Len(threads) : TtsTake(w))
    /\ WF_vars(\E w \in 1..Len(threads) : TtsDone(w))

\* SpecStw: start_tts_worker under concurrent callers, with jobs to play
NextStw ==
    \/ TtsPut({"af_heart"}, {FALSE})
    \/ \E c \in Starters : StwCheck(c)
    \/ \E c \in Starters : StwClear(c)
    \/ \E c \in Starters : StwCreate(c)
    \/ \E c \in Starters : StwStart(c)
    \/ \E w \in 1..Len(threads) : TtsTake(w)
    \/ \E w \in 1..Len(threads) : TtsDone(w)

SpecStw == InitTts /\ [][NextStw]_vars

\* the number of samples a read of `duration` seconds asks for
Requested(duration) ==
    IF duration = None THEN cb.data_size ELSE SecondsToSamples(duration)

\* C5: get_audio requesting n samples returns exactly the most recent
\* min(n, data_size) appended samples in chronological order, in every
\* reachable buffer state, partial reads of a full wrapped buffer included.
C5_GetAudioMostRecent ==
    op = "get_audio" =>
        ret = LastN(appended, Min(Requested(arg), cb.data_size))

\* C6: a full read get_audio() returns exactly the last min(total appended,
\* capacity) samples of the concatenation of all chunks appended since the
\* buffer was empty or cleared, however the samples were split into chunks.
C6_FullReadIsTail ==
    (op = "get_audio" /\ arg = None) => ret = appended

\* C6 witness: a full read of a buffer that has wrapped, with the write
\* position in the middle of the array, after more than max_size samples.
C6_Witness ==
    /\ op = "get_audio" /\ arg = None
    /\ cb.data_size = cb.max_size
    /\ cb.write_pos > 0
    /\ next_tag - 1 > cb.max_size
    /\ Len(ret) = cb.max_size

\* C7: get_overlap(d) returns an empty array if and only if fewer than
\* d * TARGET_RATE samples are buffered, and otherwise exactly the most recent
\* d seconds of samples in chronological order.
C7_OverlapMostRecent ==
    op = "get_overlap" =>
        /\ (ret = <<>>) <=> (cb.data_size < SecondsToSamples(arg))
        /\ cb.data_size >= SecondsToSamples(arg) =>
               ret = LastN(appended, SecondsToSamples(arg))

\* ----------------------------------------------------------------- SpecUi
\* The timer tick: continuous_update calls check_audio_queue and maps what
\* it returned, or the exception that came out of it, to the two text boxes.
\* The poll runs on the steps of Spec, a settings change may refresh the
\* executor meanwhile.

\* f"Error: {str(e)}"
ErrorText(e) == <<"Error: ", e>>

\* the exceptions that reach the except clause of continuous_update:
\* RuntimeError out of executor.submit, OSError out of the log file write
SubmitError == "cannot schedule new futures after shutdown"
LogError == "OSError"

\* open("translation_log.txt", "a") and f.write(...)
LogWriteOutcomes == {"written", "raises"}

\* transcription is not None and transcription != ""
NonEmpty(text) == text # Nil /\ text # EmptyText

\* continuous_update is called and enters check_audio_queue
UiTick ==
    /\ ui_pc = "idle"
    /\ pc["poll"] = "idle"
    /\ ui_pc' = "polling"
    /\ pc' = [pc EXCEPT !["poll"] = "drain"]
    /\ UNCHANGED <<last_valid_transcription, last_valid_translation, ui_out,
                   transcription_sequence, last_displayed_transcription_id,
                   translation_results_queue, tts_queue, translation_executor,
                   translation_workers, voice, executors, futures, loc,
                   new_worker_count, held, poll_ret, sync_ret,
                   latest_result, drained_now,
                   drained_all, assigned, put_log, display_log,
                   raised, refreshes, syncs, bufvars, segvars, sessvars, ttsvars,
                   recvars, ownvars,
                   corevars>>

\* check_audio_queue has returned or raised: the sticky logic, the log file
\* write, and the except clause
UiReturn ==
    LET transcription == poll_ret.transcription
        translation == poll_ret.translation
        new_transcription == IF NonEmpty(transcription) THEN transcription
                             ELSE last_valid_transcription
        new_translation == IF NonEmpty(translation) THEN translation
                           ELSE last_valid_translation
    IN  /\ ui_pc = "polling"
        /\ pc["poll"] = "idle"
        /\ ui_pc' = "idle"
        /\ raised' = raised \ {"poll"}
        /\ IF "poll" \in raised
           THEN /\ ui_out' = [transcription |-> ErrorText(SubmitError),
                              translation |-> last_valid_translation]
                /\ UNCHANGED <<last_valid_transcription, last_valid_translation>>
           ELSE IF transcription = Nil /\ ~NonEmpty(translation)
           THEN /\ ui_out' = [transcription |-> last_valid_transcription,
                              translation |-> last_valid_translation]
                /\ UNCHANGED <<last_valid_transcription, last_valid_translation>>
           ELSE /\ last_valid_transcription' = new_transcription
                /\ last_valid_translation' = new_translation
                /\ \E log_write \in LogWriteOutcomes :
                      ui_out' =
                          IF NonEmpty(transcription) /\ log_write = "raises"
                          THEN [transcription |-> ErrorText(LogError),
                                translation |-> new_translation]
                          ELSE [transcription |-> new_transcription,
                                translation |-> new_translation]
        /\ UNCHANGED <<transcription_sequence, last_displayed_transcription_id,
                       translation_results_queue, tts_queue, translation_executor,
                       translation_workers, voice, executors, futures, pc, loc,
                       new_worker_count, held, poll_ret, sync_ret,
                       latest_result, drained_now,
                       drained_all, assigned, put_log, display_log,
                       refreshes, syncs, bufvars, segvars, sessvars, ttsvars,
                   recvars, ownvars,
                   corevars>>

NextUi ==
    \/ UiTick
    \/ PollDrainGet
    \/ PollDrainEmpty
    \/ PollReconcile
    \/ PollNoTranscript
    \/ PollTranscript(MaxRaceTasks)
    \/ NextIdLoad("poll")
    \/ NextIdStore("poll")
    \/ NextIdReturn("poll")
    \/ GetExecutor("poll")
    \/ Submit("poll")
    \/ AddCallback("poll")
    \/ \E i \in 1..Len(futures) : WorkerStart(i)
    \/ \E i \in 1..Len(futures) : WorkerFinish(i)
    \/ RefreshBegin
    \/ RefreshShutdown
    \/ RefreshClear
    \/ RefreshPref
    \/ RefreshRecreate
    \/ UiReturn

SpecUi == InitRace /\ [][NextUi]_vars

\* ---------------------------------------------------------------- SpecRec
\* The recognizer calls: the poll that has finalized an utterance and a
\* synchronous process_audio request both call core.transcribe_audio, and
\* dispatch the transcript it returns as in SpecRace.

NoSpeech_outcome == <<"No speech detected">>

\* core.transcribe_audio is entered: transcribing_event.set()
TranscribeBegin(t) ==
    /\ \/ t = "poll" /\ pc[t] = "segment" /\ UNCHANGED syncs
       \/ t = "sync" /\ pc[t] = "idle" /\ syncs < MaxSync /\ syncs' = syncs + 1
    /\ pc' = [pc EXCEPT ![t] = "transcribe"]
    /\ transcribing_event' = TRUE
    /\ in_transcription' = in_transcription \cup {t}
    /\ UNCHANGED <<transcription_sequence, last_displayed_transcription_id,
                   translation_results_queue, tts_queue, translation_executor,
                   translation_workers, voice, executors, futures, loc,
                   new_worker_count, latest_result, held, poll_ret, sync_ret,
                   drained_now, drained_all, assigned, put_log, display_log,
                   raised, refreshes, bufvars, segvars, sessvars, ttsvars,
                   uivars, ownvars,
                   corevars>>

\* core.transcribe_audio returns, its finally clause clears the event; the
\* caller goes on to next_transcription_id() with the transcript, or returns
\* when there is none
TranscribeEnd(t, limit) ==
    /\ pc[t] = "transcribe"
    /\ transcribing_event' = FALSE
    /\ in_transcription' = in_transcription \ {t}
    /\ \/ /\ Started < limit
          /\ loc' = [loc EXCEPT ![t] = [NoLocals EXCEPT !.text = Utterance(Started + 1)]]
          /\ pc' = [pc EXCEPT ![t] = "id_load"]
          /\ UNCHANGED <<poll_ret, sync_ret, latest_result, drained_now>>
       \/ /\ pc' = [pc EXCEPT ![t] = "idle"]
          /\ poll_ret' = IF t = "poll" THEN NoResult ELSE poll_ret
          /\ sync_ret' = IF t = "sync" THEN NoSpeech_outcome ELSE sync_ret
          /\ latest_result' = IF t = "poll" THEN NoResult ELSE latest_result
          /\ drained_now' = IF t = "poll" THEN <<>> ELSE drained_now
          /\ UNCHANGED loc
    /\ UNCHANGED <<transcription_sequence, last_displayed_transcription_id,
                   translation_results_queue, tts_queue, translation_executor,
                   translation_workers, voice, executors, futures,
                   new_worker_count, held,
                   drained_all, assigned, put_log, display_log,
                   raised, refreshes, syncs, bufvars, segvars, sessvars, ttsvars,
                   uivars, ownvars,
                   corevars>>

NextRec ==
    \/ \E t \in Dispatchers : TranscribeBegin(t)
    \/ \E t \in Dispatchers : TranscribeEnd(t, MaxRaceTasks)
    \/ \E t \in Dispatchers : NextIdLoad(t)
    \/ \E t \in Dispatchers : NextIdStore(t)
    \/ \E t \in Dispatchers : NextIdReturn(t)
    \/ \E t \in Dispatchers : GetExecutor(t)
    \/ \E t \in Dispatchers : Submit(t)
    \/ \E t \in Dispatchers : AddCallback(t)
    \/ \E i \in 1..Len(futures) : WorkerStart(i)
    \/ \E i \in 1..Len(futures) : WorkerFinish(i)
    \/ PollBegin
    \/ PollDrainGet
    \/ PollDrainEmpty
    \/ PollReconcile
    \/ PollNoTranscript
    \/ SyncGet
    \/ SyncCheck
    \/ SyncTimeout

SpecRec == InitRace /\ [][NextRec]_vars

\* ---------------------------------------------------------------- SpecOwn
\* audio_buffer between two threads: the timer tick running check_audio_queue
\* on a chunk of speech, and the settings handler replacing the buffer.  A
\* statement is a step; the translation workers do not run, so that the only
\* results the poll drains are the cancellations of a refresh.

\* the poll drains the results, finds nothing to display, takes a chunk of
\* speech from the capture and appends it (lines 1557-1572, 1719-1728)
PollAdd ==
    LET added == add_audio(audio_buffer, Block(Speech))
    IN  /\ own_pc = "idle"
        /\ is_recording_active
        /\ finalize_count < MaxHanded
        /\ LastNonEmptyResult(translation_results_queue) = NoResult
        /\ translation_results_queue' = <<>>
        /\ drained_all' = drained_all \cup
               {translation_results_queue[k].fut :
                    k \in 1..Len(translation_results_queue)}
        /\ is_speaking' = TRUE
        /\ silence_counter' = 0
        /\ audio_buffer' = added
        /\ appended_to' = buffer_id
        /\ size_at_add' = added.data_size
        /\ poll_ret' = NoResult
        /\ own_pc' = IF added.data_size >= MAX_SPEECH_SIZE THEN "read" ELSE "idle"
        /\ UNCHANGED <<transcription_sequence, last_displayed_transcription_id,
                       tts_queue, translation_executor, translation_workers,
                       voice, executors, futures, pc, loc, new_worker_count,
                       latest_result, held, sync_ret, drained_now, assigned,
                       put_log, display_log, raised, refreshes, syncs,
                       last_transcription, audio_queue, phase, k_speech, k_trail,
                       blocks, finalize_count, first_final_size, heard, block_polls,
                       poll_audio, apply_pc, old_audio, new_duration,
                       buffer_id, bufvars, sessvars, ttsvars, uivars, recvars,
                   corevars>>

\* buffer_audio = audio_buffer.get_audio()
PollRead ==
    /\ own_pc = "read"
    /\ poll_audio' = get_audio(audio_buffer, None)
    /\ own_pc' = "finish"
    /\ UNCHANGED <<apply_pc, old_audio, new_duration, buffer_id, appended_to,
                   size_at_add, bufvars, pipevars, segvars, sessvars, ttsvars,
                   uivars, recvars,
                   corevars>>

\* core.transcribe_audio(buffer_audio, ...), the dispatch of a new transcript,
\* the overlap kept in audio_buffer, and the return (lines 1731-1769)
PollFinish ==
    /\ own_pc = "finish"
    /\ \E transcription \in Recognized(poll_audio) :
          /\ Handed(poll_audio)
          /\ Heard(transcription)
          /\ audio_buffer' = RetainOverlap(audio_buffer)
          /\ IF transcription # Nil /\ transcription # last_transcription
             THEN /\ SegDispatch(transcription)
                  /\ last_transcription' = transcription
                  /\ poll_ret' = [id |-> transcription_sequence + 1,
                                  transcription |-> transcription,
                                  translation |-> Nil, fut |-> Len(futures) + 1]
             ELSE /\ NoDispatch
                  /\ poll_ret' = NoResult
                  /\ UNCHANGED last_transcription
    /\ poll_audio' = <<>>
    /\ own_pc' = "idle"
    /\ UNCHANGED <<last_displayed_transcription_id, translation_results_queue,
                   tts_queue, translation_workers, voice, pc, loc,
                   new_worker_count, latest_result, held, sync_ret, drained_now,
                   drained_all, put_log, display_log, raised, refreshes, syncs,
                   silence_counter, is_speaking, audio_queue, phase, k_speech,
                   k_trail, blocks, block_polls,
                   apply_pc, old_audio, new_duration, buffer_id, appended_to,
                   size_at_add, bufvars, sessvars, ttsvars, uivars, recvars,
                   corevars>>

\* apply_all_settings from its start to lines 3054-3055: the executor is
\* refreshed, the capacity compared, old_audio = audio_buffer.get_audio()
ApplyRead ==
    /\ apply_pc = "idle"
    /\ sess_pc = "idle"
    /\ applies < MaxApplies
    /\ applies' = applies + 1
    /\ \E worker_count \in WorkerCounts : RefreshExecutor(worker_count)
    /\ \E duration \in BufferDurations :
          /\ new_duration' = duration
          /\ IF audio_buffer.max_size # SecondsToSamples(duration)
             THEN /\ old_audio' = get_audio(audio_buffer, None)
                  /\ apply_pc' = "replace"
             ELSE /\ apply_pc' = "session"
                  /\ UNCHANGED old_audio
    /\ UNCHANGED <<transcription_sequence, last_displayed_transcription_id,
                   tts_queue, voice, pc, loc, new_worker_count, latest_result,
                   held, poll_ret, sync_ret, drained_now, drained_all, assigned,
                   display_log, raised, refreshes, syncs,
                   recording_thread, stop_event, recording_should_run,
                   recording_params, tts_thread, tts_stop_event, threads, sess_pc,
                   was_recording, sess_ret, last_op, start_ret, starts,
                   active_before, thread_at_apply,
                   own_pc, poll_audio, buffer_id, appended_to, size_at_add,
                   bufvars, segvars, ttsvars, uivars, recvars,
                   corevars>>

\* audio_buffer = CircularAudioBuffer(max_duration_seconds=buffer_duration)
ApplyReplace ==
    /\ apply_pc = "replace"
    /\ audio_buffer' = NewBuffer(new_duration)
    /\ buffer_id' = buffer_id + 1
    /\ apply_pc' = "add"
    /\ UNCHANGED <<silence_counter, is_speaking, last_transcription, audio_queue,
                   phase, k_speech, k_trail, blocks, finalize_count,
                   first_final_size, heard, block_polls,
                   own_pc, poll_audio, old_audio, new_duration, appended_to,
                   size_at_add, bufvars, pipevars, sessvars, ttsvars, uivars,
                   recvars,
                   corevars>>

\* if len(old_audio) > 0: audio_buffer.add_audio(old_audio[-int(TARGET_RATE * 2):])
ApplyAddTail ==
    /\ apply_pc = "add"
    /\ audio_buffer' = IF Len(old_audio) > 0
                       THEN add_audio(audio_buffer,
                                      LastN(old_audio, SecondsToSamples(KeepSeconds)))
                       ELSE audio_buffer
    /\ old_audio' = <<>>
    /\ apply_pc' = "session"
    /\ UNCHANGED <<silence_counter, is_speaking, last_transcription, audio_queue,
                   phase, k_speech, k_trail, blocks, finalize_count,
                   first_final_size, heard, block_polls,
                   own_pc, poll_audio, new_duration, buffer_id, appended_to,
                   size_at_add, bufvars, pipevars, sessvars, ttsvars, uivars,
                   recvars,
                   corevars>>

\* lines 3087-3090: was_recording = is_recording_active(), and an active
\* recording is told to stop; the handler goes on as in SpecSess
ApplySession ==
    /\ apply_pc = "session"
    /\ sess_pc = "idle"
    /\ apply_pc' = "idle"
    /\ was_recording' = is_recording_active
    /\ active_before' = is_recording_active
    /\ thread_at_apply' = recording_thread
    /\ IF is_recording_active
       THEN /\ stop_event' = TRUE
            /\ sess_pc' = "apply_join"
       ELSE /\ sess_pc' = "apply_reload"
            /\ UNCHANGED stop_event
    /\ UNCHANGED <<recording_thread, recording_should_run, recording_params,
                   tts_thread, tts_stop_event, threads, sess_ret, last_op,
                   start_ret, starts, applies,
                   own_pc, poll_audio, old_audio, new_duration, buffer_id,
                   appended_to, size_at_add, bufvars, pipevars, segvars, ttsvars,
                   uivars, recvars,
                   corevars>>

NextOwn ==
    \/ SessStart
    \/ \E i \in 1..Len(threads) : CaptureOpen(i)
    \/ \E i \in 1..Len(threads) : CaptureExit(i)
    \/ PollAdd
    \/ PollRead
    \/ PollFinish
    \/ ApplyRead
    \/ ApplyReplace
    \/ ApplyAddTail
    \/ ApplySession
    \/ ApplyJoined
    \/ ApplyReload
    \/ ApplyRestart

SpecOwn == InitSess /\ [][NextOwn]_vars

\* --------------------------------------------------------------- SpecSent
\* core.is_complete_sentence on every text of at most MaxTextLen characters:
\* a caller builds the text a character at a time and asks at each length.

\* a letter, a blank, and two of the characters that end a sentence
Chars == {"a", " ", ".", "?"}

\* is_complete_sentence(text) for the text one character longer
SentAppend(c) ==
    /\ Len(sent_text) < MaxTextLen
    /\ sent_text' = Append(sent_text, c)
    /\ sent_ret' = is_complete_sentence(Append(sent_text, c))
    /\ UNCHANGED <<bufvars, pipevars, segvars, sessvars, ttsvars, uivars, recvars,
                   ownvars, healthvars>>

NextSent == \E c \in Chars : SentAppend(c)

SpecSent == InitRace /\ [][NextSent]_vars

\* ------------------------------------------------------------- SpecHealth
\* check_services_health, called by get_status on the status timer; one call
\* is one step, since the timer's handler does not overlap itself.

\* what requests.get(.../api/tags) and raise_for_status() come to
OllamaOutcomes == {"ok", "timeout", "error"}

\* what requests.get(.../models) comes to: a status below 500, a status of
\* 500 or more, a timeout, another exception
TtsOutcomes == {"ok", "status5xx", "timeout", "error"}

\* seconds between two ticks of the status timer, up to the debounce window
Elapsed == 1..HealthDebounce

\* a plausible slip: a timeout counts as a failure
OllamaCheckCountsTimeout(outcome, ok, fail_count) ==
    IF outcome = "ok"
    THEN [ok |-> TRUE, fail_count |-> 0]
    ELSE [ok |-> IF fail_count + 1 >= FAIL_THRESHOLD THEN FALSE ELSE ok,
          fail_count |-> fail_count + 1]

\* lines 632-647: the Ollama check, from the previous state and count
OllamaCheck(outcome, ok, fail_count) ==
    IF outcome = "ok"
    THEN [ok |-> TRUE, fail_count |-> 0]
    ELSE IF outcome = "timeout"
    THEN [ok |-> ok, fail_count |-> fail_count]
    ELSE [ok |-> IF fail_count + 1 >= FAIL_THRESHOLD THEN FALSE ELSE ok,
          fail_count |-> fail_count + 1]

\* lines 649-668: the TTS check, from the previous state and count
TtsCheck(outcome, ok, fail_count) ==
    IF outcome = "ok"
    THEN [ok |-> TRUE, fail_count |-> 0]
    ELSE IF outcome = "status5xx"
    THEN [ok |-> IF fail_count + 1 >= FAIL_THRESHOLD THEN FALSE ELSE ok,
          fail_count |-> fail_count + 1]
    ELSE IF outcome = "timeout"
    THEN [ok |-> ok, fail_count |-> fail_count]
    ELSE [ok |-> IF fail_count + 1 >= FAIL_THRESHOLD THEN FALSE ELSE ok,
          fail_count |-> fail_count + 1]

check_services_health(force, elapsed, ollama_outcome, tts_outcome) ==
    LET t      == clock + elapsed
        ollama == OllamaCheck(ollama_outcome, last_ollama_ok, ollama_fail_count)
        tts    == TtsCheck(tts_outcome, last_tts_ok, tts_fail_count)
    IN  /\ Len(health_log) < MaxChecks
        /\ clock' = t
        /\ IF ~force /\ (t - last_health_check_ts) < HealthDebounce
           THEN /\ health_ret' = <<last_ollama_ok, last_tts_ok>>
                /\ health_log' = Append(health_log,
                       [force |-> force, ollama |-> "none", tts |-> "none"])
                /\ UNCHANGED <<last_health_check_ts, last_ollama_ok, last_tts_ok,
                               ollama_fail_count, tts_fail_count,
                               services_ok_event>>
           ELSE /\ ollama_fail_count' = ollama.fail_count
                /\ tts_fail_count' = tts.fail_count
                /\ last_health_check_ts' = t
                /\ last_ollama_ok' = ollama.ok
                /\ last_tts_ok' = tts.ok
                /\ services_ok_event' = (ollama.ok /\ tts.ok)
                /\ health_ret' = <<ollama.ok, tts.ok>>
                /\ health_log' = Append(health_log,
                       [force |-> force, ollama |-> ollama_outcome,
                        tts |-> tts_outcome])
        /\ UNCHANGED <<bufvars, pipevars, segvars, sessvars, ttsvars, uivars,
                       recvars, ownvars, sent_text, sent_ret>>

NextHealth ==
    \E force \in BOOLEAN, elapsed \in Elapsed,
       ollama_outcome \in OllamaOutcomes, tts_outcome \in TtsOutcomes :
        check_services_health(force, elapsed, ollama_outcome, tts_outcome)

SpecHealth == InitRace /\ [][NextHealth]_vars

\* --------------------------------------------------- claims on Spec, SpecRace
Ids(log) == [k \in 1..Len(log) |-> log[k].id]

\* C1: transcripts submitted with ids 1, 2, 3 whose non-empty translations
\* complete in the order 3, 2, 1: once the reconciler has drained all three
\* results, in one poll or several, the translation on display is that of 3
\* and last_displayed_transcription_id is 3; 3's translation is not lost and
\* nothing older is shown after it.
C1_NewestSurvivesOutOfOrder ==
    ( /\ Ids(put_log) = <<3, 2, 1>>
      /\ \A k \in 1..Len(put_log) : put_log[k].translation # Nil
      /\ drained_all = {1, 2, 3}
      /\ pc["poll"] \notin {"drain", "reconcile"} )
    => /\ last_displayed_transcription_id = 3
       /\ display_log # <<>>
       /\ display_log[Len(display_log)] = 3

\* the drained result with the highest id among those with a translation
HighestNonEmpty(rs) ==
    LET good == {k \in 1..Len(rs) : rs[k].translation # Nil}
    IN  IF good = {} THEN NoResult
        ELSE rs[CHOOSE k \in good : \A j \in good : rs[k].id >= rs[j].id]

\* C2: when the drain loop of a poll ends, the candidate it kept is the
\* drained result with the highest sequence id among those whose translation
\* is non-empty, whatever order the results sat in the queue.
C2_CandidateIsHighestId ==
    pc["poll"] = "reconcile" => latest_result = HighestNonEmpty(drained_now)

\* C3: last_displayed_transcription_id never decreases; a poll whose candidate
\* has an id less than or equal to it returns no display update for that
\* candidate and leaves last_displayed_transcription_id unchanged; a
\* translation is returned for display only with an id above the one last shown.
C3_DisplayedIdMonotonic ==
    [][ /\ last_displayed_transcription_id' >= last_displayed_transcription_id
        /\ ( /\ pc["poll"] = "reconcile" /\ pc'["poll"] # "reconcile"
             /\ latest_result # NoResult
             /\ latest_result.id <= last_displayed_transcription_id )
           => /\ last_displayed_transcription_id' = last_displayed_transcription_id
              /\ display_log' = display_log
              /\ poll_ret' = poll_ret
              /\ pc'["poll"] = "segment"
        /\ (poll_ret' # poll_ret /\ poll_ret'.translation # Nil)
           => /\ poll_ret'.id > last_displayed_transcription_id
              /\ last_displayed_transcription_id' = poll_ret'.id
      ]_vars

\* C3 witness: a poll has just dropped a candidate older than the id on display.
C3_Witness ==
    /\ pc["poll"] = "segment"
    /\ latest_result # NoResult
    /\ latest_result.id < last_displayed_transcription_id
    /\ display_log # <<>>

\* C4: the ids next_transcription_id returns are unique and strictly
\* increasing in the order they are assigned, also under concurrent calls.
C4_IdsUniqueIncreasing ==
    \A i, j \in 1..Len(assigned) : i < j => assigned[i] < assigned[j]

Failed(i) == futures[i].st \in {"done", "cancelled"} /\ futures[i].outcome # "ok"

PutsOf(i) == {k \in 1..Len(put_log) : put_log[k].fut = i}

C9_EveryTaskPutsOneResult ==
    /\ raised = {}
    /\ \A i \in 1..Len(futures) :
           /\ Cardinality(PutsOf(i)) <= 1
           /\ (futures[i].st \in {"done", "cancelled"} /\ futures[i].has_cb)
                  => Cardinality(PutsOf(i)) = 1

\* the block stream so far is silent blocks, then speech blocks between the
\* minimum and the maximum speech duration, then silent blocks for at least
\* the minimum silence, and the polls have taken all of it, a block at a time
C10_StreamDone ==
    /\ phase = "trail"
    /\ k_speech >= MIN_SPEECH_DURATION
    /\ k_speech < MAX_SPEECH_DURATION
    /\ k_trail >= MIN_SILENCE_DURATION
    /\ audio_queue = <<>>
    /\ block_polls

\* C10: over a stream of silent, then speech (at least the minimum speech and
\* below the maximum speech duration), then silent blocks (at least the
\* minimum silence), polled from the initial silent state, the buffer is
\* handed to transcription exactly once, and what is handed over is within
\* one block of the speech duration plus the overlap.
C10_FinalizesOnce ==
    C10_StreamDone =>
        /\ finalize_count = 1
        /\ first_final_size >= SecondsToSamples(k_speech + BUFFER_OVERLAP) - TARGET_RATE
        /\ first_final_size <= SecondsToSamples(k_speech + BUFFER_OVERLAP) + TARGET_RATE

\* ------------------------------------------------------- claims on SpecSess
\* the step is a stop call that found no recording in progress
RedundantStop == last_op' = "stop_noop" /\ last_op # "stop_noop"

\* the step is the return of a stop call that stopped a recording
StopReturns == last_op' = "stop" /\ sess_pc = "stop_join"

\* C11: stop_continuous_recording called twice in a row, or before any start,
\* raises nothing and changes no session state; and when a stop returns, no
\* thread started for the session (capture thread, speech worker, translation
\* pool) is left running.
C11_StopIdempotentNoOrphans ==
    [][ /\ RedundantStop =>
               UNCHANGED <<recording_thread, stop_event, recording_should_run,
                           recording_params, tts_thread, tts_stop_event, threads,
                           translation_executor, executors>>
        /\ StopReturns =>
               /\ \A i \in 1..Len(threads') : threads'[i].st = "dead"
               /\ translation_executor' # 0 =>
                      executors'[translation_executor'].shutdown
      ]_vars

\* ---------------------------------------------- claims on SpecTts, SpecStw
\* a voice that is empty or "none" in any case
VoiceOff(v) == v \in {"", "none", "None"}

\* job n waits on tts_queue with a disabled voice and a result channel
WaitsDisabled(n) ==
    \E k \in 1..Len(tts_queue) :
        /\ tts_queue[k].fut = n
        /\ VoiceOff(tts_queue[k].voice)
        /\ tts_queue[k].result_queue # Nil

\* no synthesis for a dequeued job with a disabled voice, and one success
\* outcome on its channel if it has one
DisabledJobsAnswered ==
    \A job \in handled :
        VoiceOff(job.voice) =>
            /\ \A k \in 1..Len(play_log) : play_log[k] # job.fut
            /\ synth_result[job.fut] = "none"
            /\ job.result_queue # Nil =>
                   /\ Len(channels[job.fut]) = 1
                   /\ channels[job.fut][1].ok
            /\ job.result_queue = Nil => channels[job.fut] = <<>>

\* C12: for every job the speech worker dequeues whose voice is empty or
\* "none" in any case, no synthesis call is made and, if the job carries a
\* result channel, exactly one success outcome is put on it; a caller waiting
\* on the channel of such a job is always answered.
C12_DisabledVoiceAnswered ==
    /\ []DisabledJobsAnswered
    /\ \A n \in 1..MaxJobs : WaitsDisabled(n) ~> (Len(channels[n]) = 1)

\* C12 witness: a job with the voice "None" and a result channel has been
\* dequeued and answered.
C12_Witness ==
    \E job \in handled :
        /\ job.voice = "None"
        /\ job.result_queue # Nil
        /\ Len(channels[job.fut]) = 1

\* C13: when the synthesis or the playback of a dequeued job fails, a job with
\* a result channel gets one failure outcome (success flag False) on it, a
\* job without one gets nothing, and the worker keeps running its loop.
C13_FailureReported ==
    /\ \A job \in handled :
           synth_result[job.fut] \in {"failed", "raised"} =>
               /\ job.result_queue # Nil =>
                      /\ Len(channels[job.fut]) = 1
                      /\ ~channels[job.fut][1].ok
               /\ job.result_queue = Nil => channels[job.fut] = <<>>
    /\ \A w \in 1..Len(threads) :
           threads[w].target = "tts_worker" => threads[w].st = "running"

\* the speech worker threads that are alive
AliveTtsWorkers ==
    {w \in 1..Len(threads) : threads[w].target = "tts_worker" /\ is_alive(w)}

\* C14: under any interleaving of start_tts_worker calls at most one speech
\* worker thread is alive, no two jobs are in synthesis or playback at the
\* same time, and jobs begin playback in the order they were put on tts_queue.
C14_OneWorkerFifo ==
    /\ Cardinality(AliveTtsWorkers) <= 1
    /\ Cardinality(in_synthesis) <= 1
    /\ \A j, k \in 1..Len(play_log) : j < k => play_log[j] < play_log[k]

\* ------------------------------------------------ further claims on SpecRace
Pending_outcome == <<"Translation pending">>

\* the step is the return of a process_audio call that had submitted a task
SyncReturns == pc["sync"] \in {"wait", "check"} /\ pc'["sync"] = "idle"

\* C17: a synchronous caller that has submitted a translation waits for its
\* own result only until the deadline: what it returns is the translation of
\* its own transcript, when that result arrived in time with a translation,
\* and the "Translation pending" outcome otherwise.
C17_SyncReturnsOwnOrPending ==
    [][ SyncReturns =>
            \/ sync_ret' = Pending_outcome
            \/ sync_ret' = Translation(loc["sync"].text)
      ]_vars

\* ------------------------------------------------ further claims on SpecSess
\* the capture thread of the current session ended on a device failure
CaptureFailed ==
    /\ recording_thread # 0
    /\ threads[recording_thread].failed

\* C18: a capture or device failure in record_audio ends the capture thread,
\* leaves the session inactive, and is surfaced to the caller that started
\* the session: that caller was not told that recording started.
C18_CaptureFailureSurfaced ==
    CaptureFailed => /\ ~is_recording_active
                     /\ start_ret # Started_msg

ApplyPcs == {"apply_join", "apply_reload", "apply_restart"}

\* apply_all_settings was called on an active session whose capture thread
\* did not fail by itself, and is running or was the last handler to return
AppliedOnActive ==
    /\ active_before
    /\ ~threads[thread_at_apply].failed
    /\ sess_pc \in ApplyPcs \/ (sess_pc = "idle" /\ last_op = "apply")

\* C20: applying new runtime parameters to an active session does not
\* restart it: during and after the call the capture thread is the one that
\* was running when the call began, and the session is active.
C20_AppliedWithoutRestart ==
    AppliedOnActive => /\ recording_thread = thread_at_apply
                       /\ is_recording_active

\* -------------------------------------------------------- claims on SpecUi
\* the step is the return of a tick of continuous_update
TickReturns == ui_pc = "polling" /\ ui_pc' = "idle"

\* the texts the pipeline produces
PipelineTranscripts == {Utterance(n) : n \in 1..MaxRaceTasks}
PipelineTranslations == {Translation(t) : t \in PipelineTranscripts}

\* C19: once a transcript or translation of the pipeline is on display,
\* every later tick outputs, in that box, the value on display or a new
\* non-empty value of the pipeline: no failure of the poll blanks a box or
\* puts an error string into it.
C19_StickyDisplay ==
    [][ TickReturns =>
          /\ ui_out.transcription \in PipelineTranscripts =>
                ui_out'.transcription \in
                    {ui_out.transcription} \cup PipelineTranscripts
          /\ ui_out.translation \in PipelineTranslations =>
                ui_out'.translation \in
                    {ui_out.translation} \cup PipelineTranslations
      ]_vars

\* ------------------------------------------------------- claims on SpecRec
\* C16: at most one call of the recognizer core.transcribe_audio is in
\* progress at any time, whether the calls come from polls or from a
\* synchronous process_audio request.
C16_OneTranscription == Cardinality(in_transcription) <= 1

\* ------------------------------------------------------- claims on SpecOwn
PollInProgress == own_pc # "idle"

\* the step is a statement of apply_all_settings that reads the samples of
\* audio_buffer, replaces it or writes to it
ApplyTouchesBuffer ==
    /\ apply_pc' # apply_pc
    /\ apply_pc' = "replace" \/ apply_pc \in {"replace", "add"}

\* the step is the poll's read of the buffer it appended to
PollReads == own_pc = "read" /\ own_pc' = "finish"

\* C15: only the thread that runs the poll reads, writes and replaces
\* audio_buffer while a poll is in progress: apply_all_settings does not touch
\* it then, and the poll reads the buffer object it appended to with every
\* sample that was in it after the append.
C15_PollOwnsBuffer ==
    [][ /\ ApplyTouchesBuffer => ~PollInProgress
        /\ PollReads => /\ buffer_id = appended_to
                        /\ Len(poll_audio') = size_at_add
      ]_vars

\* ------------------------------------------------------ claims on SpecSent
\* the last character of the text that is not a blank, "" when there is none
LastVisible(text) ==
    LET visible == {k \in 1..Len(text) : text[k] # " "}
    IN  IF visible = {} THEN ""
        ELSE text[CHOOSE k \in visible : \A j \in visible : j <= k]

\* the whitespace-separated words of the text, counted by their last characters
Words(text) ==
    Cardinality({k \in 1..Len(text) :
                   text[k] # " " /\ (k = Len(text) \/ text[k + 1] = " ")})

\* C21: is_complete_sentence(text) is True if and only if text is non-empty
\* and either its whitespace-trimmed form ends with '.', '!' or '?', or it has
\* at least 5 whitespace-separated words.
C21_CompleteSentence ==
    sent_ret = /\ sent_text # <<>>
               /\ \/ LastVisible(sent_text) \in {".", "!", "?"}
                  \/ Words(sent_text) >= 5

\* a text of five words without final punctuation has been found complete
C21_Witness ==
    /\ sent_ret
    /\ Words(sent_text) = 5
    /\ LastVisible(sent_text) = "a"

\* ------------------------------------------------ further claims on SpecSeg
\* the step hands a buffer to the recognizer
Finalizes == finalize_count' # finalize_count

\* the audio a finalizing poll hands over: the buffer, with the chunk of the
\* poll appended when there is one
PreFinalizeAudio ==
    IF audio_queue = <<>> THEN get_audio(audio_buffer, None)
    ELSE get_audio(add_audio(audio_buffer, Concatenate(audio_queue)), None)

\* the most recent BUFFER_OVERLAP of an audio, nothing if it is shorter
TrailingOverlap(audio) ==
    IF Len(audio) >= SecondsToSamples(BUFFER_OVERLAP)
    THEN SubSeq(audio, Len(audio) - SecondsToSamples(BUFFER_OVERLAP) + 1, Len(audio))
    ELSE <<>>

\* C22: after every finalize, on each path and whatever the recognizer
\* returned, the buffer holds exactly the most recent overlap of the audio
\* handed over, is_speaking is False and silence_counter is 0.
C22_FinalizeRetainsOverlap ==
    [][ Finalizes =>
          /\ get_audio(audio_buffer', None) = TrailingOverlap(PreFinalizeAudio)
          /\ ~is_speaking'
          /\ silence_counter' = 0
      ]_vars

\* C23: no empty transcript is dispatched, and any two transcripts dispatched
\* one after the other differ, whichever finalize paths produced them.
C23_NoDuplicateDispatch ==
    /\ \A k \in 1..Len(futures) : futures[k].text \notin {Nil, <<>>}
    /\ \A k \in 1..(Len(futures) - 1) : futures[k].text # futures[k + 1].text

\* the step dispatches a transcript
Dispatches == Len(futures') = Len(futures) + 1

\* C24: the sentence heuristic gates dispatch on the silence-timeout path and
\* on no other: what a poll without new audio dispatches passes
\* is_complete_sentence, and a poll with new audio that finalizes dispatches
\* every transcript that is neither empty nor the one accepted before, even
\* when it fails the heuristic.
C24_HeuristicOnIdlePathOnly ==
    [][ /\ (Dispatches /\ audio_queue = <<>>) =>
               is_complete_sentence(futures'[Len(futures')].text)
        /\ ( /\ Finalizes
             /\ audio_queue # <<>>
             /\ heard' \notin {Nil, <<>>}
             /\ heard' # last_transcription ) => Dispatches
      ]_vars

\* a segment of at least the minimum speech duration is buffered and no
\* block is waiting
SegmentWaits ==
    /\ audio_queue = <<>>
    /\ audio_buffer.data_size >= MIN_SPEECH_SIZE

\* C25: when audio blocks stop arriving while a segment of at least the
\* minimum speech duration is buffered, speaking or not, the polls that keep
\* running eventually finalize it: unless a new block arrives, the buffer is
\* handed to the recognizer.
C25_IdleSegmentFinalized ==
    \A n \in 0..(MaxFinalizeCount - 1) :
        (SegmentWaits /\ finalize_count = n)
            ~> (audio_queue # <<>> \/ finalize_count > n)

\* a poll in state SPEAKING takes a speech-like chunk off the queue
SpeechPollWhileSpeaking ==
    /\ is_speaking
    /\ audio_queue # <<>>
    /\ audio_queue' = <<>>
    /\ is_speech(Concatenate(audio_queue))
    /\ finalize_count < MaxFinalizeCount

\* C26: a poll in state SPEAKING with a speech-like chunk resets the silence
\* timer and either finalizes the utterance or appends the whole chunk to a
\* buffer that is still shorter than maxSpeechSeconds, so that an
\* uninterrupted stream of speech is cut at least once per maxSpeechSeconds,
\* whatever buffer capacity the settings page has set.
C26_ForcedCut ==
    [][SpeechPollWhileSpeaking =>
          /\ silence_counter' = 0
          /\ \/ Finalizes
             \/ /\ audio_buffer'.data_size =
                       audio_buffer.data_size + Len(Concatenate(audio_queue))
                /\ audio_buffer'.data_size < MAX_SPEECH_SIZE]_vars

\* the cursor and the count of the buffer are within the capacity
CursorInRange(b) ==
    /\ 0 <= b.write_pos /\ b.write_pos < b.max_size
    /\ 0 <= b.data_size /\ b.data_size <= b.max_size

\* add_audio has run on a chunk shorter than the capacity
NonOversizedAdd == op' = "add_audio" /\ arg' < cb.max_size

\* C27: after any sequence of add_audio and clear calls the write position is
\* in [0, max_size) and data_size in [0, max_size]; a non-oversized add_audio
\* of k samples advances the write position by k modulo max_size and sets
\* data_size to min(data_size + k, max_size).
C27_CursorAndCount ==
    /\ []CursorInRange(cb)
    /\ [][NonOversizedAdd =>
             /\ cb'.write_pos = (cb.write_pos + arg') % cb.max_size
             /\ cb'.data_size = Min(cb.data_size + arg', cb.max_size)]_vars

\* the failed checks at the end of a sequence of outcomes, back to the latest
\* successful one; timeouts and debounced calls are neither
RECURSIVE ConsecutiveFails(_)
ConsecutiveFails(outcomes) ==
    IF outcomes = <<>> THEN 0
    ELSE LET latest  == outcomes[Len(outcomes)]
             earlier == SubSeq(outcomes, 1, Len(outcomes) - 1)
         IN  IF latest = "ok" THEN 0
             ELSE IF latest \in {"timeout", "none"} THEN ConsecutiveFails(earlier)
             ELSE 1 + ConsecutiveFails(earlier)

OllamaLog(log) == [k \in 1..Len(log) |-> log[k].ollama]
TtsLog(log) == [k \in 1..Len(log) |-> log[k].tts]

HealthCalled == health_log' # health_log

LatestCall == health_log'[Len(health_log')]

\* the call falls within the debounce window and is not forced
DebouncedCall ==
    /\ ~LatestCall.force
    /\ (clock' - last_health_check_ts) < HealthDebounce

\* C28: a service goes from up to down only at a non-debounced check at which
\* the failed checks since the latest successful one have reached
\* _FAIL_THRESHOLD; a timed-out check changes neither the state nor the count;
\* a successful check sets the state to up and the count to 0; a debounced
\* call returns the cached state and changes nothing.
C28_HealthThreshold ==
    [][HealthCalled =>
          /\ DebouncedCall =>
                /\ UNCHANGED <<last_health_check_ts, last_ollama_ok, last_tts_ok,
                               ollama_fail_count, tts_fail_count,
                               services_ok_event>>
                /\ health_ret' = <<last_ollama_ok, last_tts_ok>>
          /\ (last_ollama_ok /\ ~last_ollama_ok') =>
                /\ ~DebouncedCall
                /\ ConsecutiveFails(OllamaLog(health_log')) >= FAIL_THRESHOLD
          /\ (last_tts_ok /\ ~last_tts_ok') =>
                /\ ~DebouncedCall
                /\ ConsecutiveFails(TtsLog(health_log')) >= FAIL_THRESHOLD
          /\ (~DebouncedCall /\ LatestCall.ollama = "timeout") =>
                /\ last_ollama_ok' = last_ollama_ok
                /\ ollama_fail_count' = ollama_fail_count
          /\ (~DebouncedCall /\ LatestCall.tts = "timeout") =>
                /\ last_tts_ok' = last_tts_ok
                /\ tts_fail_count' = tts_fail_count
          /\ (~DebouncedCall /\ LatestCall.ollama = "ok") =>
                /\ last_ollama_ok'
                /\ ollama_fail_count' = 0
          /\ (~DebouncedCall /\ LatestCall.tts = "ok") =>
                /\ last_tts_ok'
                /\ tts_fail_count' = 0]_vars

\* the translation service was up and is reported down after two failed checks
C28_Witness ==
    /\ Len(health_log) = 3
    /\ OllamaLog(health_log) = <<"ok", "error", "error">>
    /\ TtsLog(health_log) = <<"ok", "timeout", "ok">>
    /\ ~last_ollama_ok
    /\ last_tts_ok
    /\ ollama_fail_count = FAIL_THRESHOLD

\* the place of a transcript of the pipeline in the order of the utterances,
\* which is the order of their sequence IDs
UtteranceOf(text) == text[2]

\* C29: the transcript on display never goes back to an older utterance:
\* once the transcript of the utterance N is shown, no later poll shows the
\* transcript of an utterance M < N.
C29_DisplayNeverGoesBack ==
    [][(/\ last_valid_transcription \in PipelineTranscripts
        /\ last_valid_transcription' \in PipelineTranscripts)
          => UtteranceOf(last_valid_transcription')
                 >= UtteranceOf(last_valid_transcription)]_vars

\* the capture threads whose input stream is open and enqueuing blocks
Feeding ==
    {i \in 1..Len(threads) :
        threads[i].target = "record_audio" /\ threads[i].st = "streaming"}

\* C30: across any sequence of starts and stops at most one capture thread is
\* alive and feeding audio_queue: a thread that a stop has signalled ends and
\* is not revived by the stop_event.clear() of a later start.
C30_OneCaptureThread == Cardinality(Feeding) <= 1


====
